---- MODULE Spec2Model ----
(***************************************************************************)
(* A model of the fiber-network analysis backend.                          *)
(*                                                                         *)
(*   - AsPlannedVsAsBuiltComparator (services/comparison_service.py):      *)
(*     compare_networks and its helpers, as operators over the planned     *)
(*     cable list, the built cable list and the OPM measurement list.      *)
(*   - KMLParser (services/kml_parser.py): the parser object, whose four   *)
(*     lists are its state, and parse_file as an action on it.             *)
(*                                                                         *)
(* Conventions.  Python strings that the code inspects (lower(), `in`,     *)
(* regular expressions) are sequences of one-character strings; strings    *)
(* that are only compared for equality with literals of the code are TLA+  *)
(* strings.  Optional[T] is a sequence of length at most one: None is      *)
(* <<>> and a present value x is <<x>>.  Floats are exact rationals: the   *)
(* lengths of the model are whole kilometres, on which the subtraction of  *)
(* comparison_service.py:155 is exact in floating point too, and the       *)
(* planned lengths divide 100 times every variance, so that                *)
(* length_variance_pct is a whole number of percent.  Losses are whole     *)
(* tenths of a dB.  The summary's percentages, which the code rounds to    *)
(* two decimals, are whole hundredths of a percent.                        *)
(*                                                                         *)
(*   - OPMCalculator (services/opm_calculator.py): calculate_power_budget, *)
(*     calculate_max_distance, calculate_required_tx_power.  Its floats    *)
(*     are rationals <<numerator, denominator>> in lowest terms, and the   *)
(*     inputs of the model are dyadic (multiples of 1/256), on which the   *)
(*     sums, products and roundings of the code are exact in floating      *)
(*     point as well.                                                      *)
(*   - CSVMeasurementParser (services/csv_parser.py): parse_opm_csv on the *)
(*     rows that csv.DictReader yields, each a function from the column    *)
(*     names of the header to Optional[str].                               *)
(*   - POST /compare (api/comparison.py): compare_planned_vs_built as one  *)
(*     action that runs the parser on both documents, the CSV parser on    *)
(*     the OPM file and the comparator on what they return.                *)
(*                                                                         *)
(* Specifications: Spec, SpecCable and SpecMany (comparator), SpecParser   *)
(* and SpecLabels (parser), SpecOpm and SpecBatch (calculator), SpecCsv    *)
(* (CSV parser), SpecProject (endpoint).  The sets that Init and the       *)
(* actions draw from (catalogues of cables, placemarks, rows, links) are   *)
(* inputs of the program, not translations of its code.                    *)
(***************************************************************************)
EXTENDS Integers, Sequences, FiniteSets, TLC

VARIABLES
    planned_data,       \* compare_networks: planned_data['cables']
    built_data,         \* compare_networks: built_data['cables']
    opm_measurements,   \* compare_networks: opm_measurements (None is <<>>)
    comparison,         \* Optional[NetworkComparison] returned by the call
    pc,                 \* "ready" before the call, "done" after it, "error" if it raised
    parser,             \* a KMLParser: its poles, odps, cables, raw_placemarks
    calls,              \* the parse_file calls made on it, with what each returned
    link,               \* OPMCalculator: optical_params, loss_params, segment
    opm_call,           \* Optional: the OPMCalculator call made and its outcome
    csv_file,           \* parse_opm_csv: the rows that csv.DictReader yields
    csv_call            \* Optional: the list that parse_opm_csv returned

vars ==
    <<planned_data, built_data, opm_measurements, comparison, pc, parser, calls,
      link, opm_call, csv_file, csv_call>>

----------------------------------------------------------------------------
(* Optional values and small helpers *)

None == <<>>

\* no OPMCalculator input: the value of link where no calculator call is made
NoLink == <<>>

\* no CSV file: the value of csv_file where parse_opm_csv is not called
NoFile == <<>>

Some(x) == <<x>>

Abs(x) == IF x < 0 THEN 0 - x ELSE x

Range(s) == {s[i] : i \in DOMAIN s}

RECURSIVE SumSeq(_)
SumSeq(s) == IF s = <<>> THEN 0 ELSE Head(s) + SumSeq(Tail(s))

\* dict.get(key, default) on a dict modelled as a record
Get(d, key, default) == IF key \in DOMAIN d THEN d[key] ELSE default

\* round(n / d, 0) for d > 0: the nearest integer, a tie going to the even one
RoundDiv(n, d) ==
    LET q == n \div d
        r == n % d
    IN  IF 2 * r < d THEN q
        ELSE IF 2 * r > d THEN q + 1
        ELSE IF q % 2 = 0 THEN q ELSE q + 1

----------------------------------------------------------------------------
(* str.lower() on sequences of characters *)

UpperLetters ==
    <<"A","B","C","D","E","F","G","H","I","J","K","L","M",
      "N","O","P","Q","R","S","T","U","V","W","X","Y","Z">>

LowerLetters ==
    <<"a","b","c","d","e","f","g","h","i","j","k","l","m",
      "n","o","p","q","r","s","t","u","v","w","x","y","z">>

LowerChar(c) ==
    IF \E i \in DOMAIN UpperLetters : UpperLetters[i] = c
    THEN LowerLetters[CHOOSE i \in DOMAIN UpperLetters : UpperLetters[i] = c]
    ELSE c

Lower(s) == [i \in DOMAIN s |-> LowerChar(s[i])]

----------------------------------------------------------------------------
(* String literals of comparison_service.py that meet parsed text *)

STR_Unknown == <<"U","n","k","n","o","w","n">>

STR_NotBuilt == <<"N","o","t"," ","B","u","i","l","t">>

STR_NotPlanned == <<"N","o","t"," ","P","l","a","n","n","e","d">>

LENGTH_TOLERANCE_PCT == 5

\* 0.5 dB, in tenths of a dB
LOSS_TOLERANCE_DB == 5

----------------------------------------------------------------------------
(* {c['name']: c for c in cables}: keys in order of first insertion, each  *)
(* key holding the last cable of that name                                 *)

DictKeys(cables) ==
    LET first(i) == \A j \in 1..(i - 1) : cables[j].name # cables[i].name
        RECURSIVE keys(_)
        keys(i) == IF i > Len(cables) THEN <<>>
                   ELSE IF first(i) THEN <<cables[i].name>> \o keys(i + 1)
                   ELSE keys(i + 1)
    IN  keys(1)

DictValue(cables, name) ==
    LET last == CHOOSE i \in DOMAIN cables :
                    /\ cables[i].name = name
                    /\ \A j \in DOMAIN cables : cables[j].name = name => j <= i
    IN  cables[last]

CableDict(cables) ==
    [keys |-> DictKeys(cables),
     val  |-> [n \in {cables[i].name : i \in DOMAIN cables} |-> DictValue(cables, n)]]

HasKey(d, name) == \E i \in DOMAIN d.keys : d.keys[i] = name

\* dict.get(name): Optional
DictGet(d, name) == IF HasKey(d, name) THEN Some(d.val[name]) ELSE None

\* opm_lookup[m.cable_id] = m for every m, a later one replacing an earlier
OpmLookup(measurements, name) ==
    LET hits == {i \in DOMAIN measurements : measurements[i].cable_id = name}
    IN  IF hits = {} THEN None
        ELSE Some(measurements[CHOOSE i \in hits : \A j \in hits : j <= i])

----------------------------------------------------------------------------
(* _compare_cable *)

\* Python truth value of an Optional[float]: None and 0.0 are false
Truthy(opt) == opt # None /\ opt[1] # 0

\* the bands with their upper ends left out
ComplianceOf_StrictBands(length_variance_pct, measured_loss, planned_loss) ==
    IF Abs(length_variance_pct) < LENGTH_TOLERANCE_PCT
    THEN IF measured_loss = None
         THEN [status |-> "Compliant", remarks |-> <<>>]
         ELSE [status |-> "Minor Deviation",
               remarks |-> << <<"Loss variance detected">> >>]
    ELSE IF Abs(length_variance_pct) < LENGTH_TOLERANCE_PCT * 2
    THEN [status |-> "Minor Deviation",
          remarks |-> << <<"Length variance", length_variance_pct>> >>]
    ELSE [status |-> "Major Deviation",
          remarks |-> << <<"Significant length variance", length_variance_pct>> >>]

ComplianceOf(length_variance_pct, measured_loss, planned_loss) ==
    IF Abs(length_variance_pct) <= LENGTH_TOLERANCE_PCT
    THEN IF \/ measured_loss = None
            \/ /\ Truthy(planned_loss)
               /\ Abs(measured_loss[1] - planned_loss[1]) <= LOSS_TOLERANCE_DB
         THEN [status |-> "Compliant", remarks |-> <<>>]
         ELSE [status |-> "Minor Deviation",
               remarks |-> << <<"Loss variance detected">> >>]
    ELSE IF Abs(length_variance_pct) <= LENGTH_TOLERANCE_PCT * 2
    THEN [status |-> "Minor Deviation",
          remarks |-> << <<"Length variance", length_variance_pct>> >>]
    ELSE [status |-> "Major Deviation",
          remarks |-> << <<"Significant length variance", length_variance_pct>> >>]

\* a planned length of 0 counted as a full deviation of whatever was built
LengthVariancePct_FullWhenUnplanned(length_variance_km, planned_length) ==
    IF planned_length > 0
    THEN (length_variance_km * 100) \div planned_length
    ELSE IF length_variance_km = 0 THEN 0 ELSE 100

LengthVariancePct(length_variance_km, planned_length) ==
    IF planned_length > 0
    THEN (length_variance_km * 100) \div planned_length
    ELSE 0

\* the statuses compared as written
StatusMatch_CaseSensitive(planned_status, built_status) ==
    planned_status = built_status

StatusMatch(planned_status, built_status) ==
    Lower(planned_status) = Lower(built_status)

\* the cable is planned and not built: comparison_service.py:133-149
NotBuiltResult_PctByFormula(cable_name, planned_length, planned_status, planned_loss) ==
    [cable_id            |-> cable_name,
     planned_length_km   |-> planned_length,
     built_length_km     |-> 0,
     length_variance_km  |-> 0 - planned_length,
     length_variance_pct |-> LengthVariancePct(0 - planned_length, planned_length),
     planned_status      |-> planned_status,
     built_status        |-> STR_NotBuilt,
     status_match        |-> FALSE,
     planned_loss_db     |-> planned_loss,
     measured_loss_db    |-> None,
     loss_variance_db    |-> None,
     compliance_status   |-> "Major Deviation",
     remarks             |-> << <<"Cable planned but not built">> >>]

NotBuiltResult(cable_name, planned_length, planned_status, planned_loss) ==
    [cable_id            |-> cable_name,
     planned_length_km   |-> planned_length,
     built_length_km     |-> 0,
     length_variance_km  |-> 0 - planned_length,
     length_variance_pct |-> -100,
     planned_status      |-> planned_status,
     built_status        |-> STR_NotBuilt,
     status_match        |-> FALSE,
     planned_loss_db     |-> planned_loss,
     measured_loss_db    |-> None,
     loss_variance_db    |-> None,
     compliance_status   |-> "Major Deviation",
     remarks             |-> << <<"Cable planned but not built">> >>]

_compare_cable(cable_name, planned, built, opm) ==
    LET planned_length == Get(planned, "fiber_length_km", 0)
        planned_status == Get(planned, "construction_status", STR_Unknown)
        planned_loss   == None
    IN  IF built = None
        THEN NotBuiltResult(cable_name, planned_length, planned_status, planned_loss)
        ELSE
        LET built_length  == Get(built[1], "fiber_length_km", 0)
            built_status  == Get(built[1], "construction_status", STR_Unknown)
            length_variance_km  == built_length - planned_length
            length_variance_pct == LengthVariancePct(length_variance_km, planned_length)
            status_match  == StatusMatch(planned_status, built_status)
            measured_loss == IF opm # None THEN Some(opm[1].loss_db) ELSE None
            loss_variance == None
            tier == ComplianceOf(length_variance_pct, measured_loss, planned_loss)
            remarks == IF ~status_match
                       THEN Append(tier.remarks,
                                   <<"Status mismatch", planned_status, built_status>>)
                       ELSE tier.remarks
        IN  [cable_id            |-> cable_name,
             planned_length_km   |-> planned_length,
             built_length_km     |-> built_length,
             length_variance_km  |-> length_variance_km,
             length_variance_pct |-> length_variance_pct,
             planned_status      |-> planned_status,
             built_status        |-> built_status,
             status_match        |-> status_match,
             planned_loss_db     |-> planned_loss,
             measured_loss_db    |-> measured_loss,
             loss_variance_db    |-> loss_variance,
             compliance_status   |-> tier.status,
             remarks             |-> remarks]

_create_unplanned_cable_result_PctByFormula(cable_name, built, opm) ==
    LET built_length  == Get(built, "fiber_length_km", 0)
        built_status  == Get(built, "construction_status", STR_Unknown)
        measured_loss == IF opm # None THEN Some(opm[1].loss_db) ELSE None
    IN  [cable_id            |-> cable_name,
         planned_length_km   |-> 0,
         built_length_km     |-> built_length,
         length_variance_km  |-> built_length,
         length_variance_pct |-> LengthVariancePct(built_length, 0),
         planned_status      |-> STR_NotPlanned,
         built_status        |-> built_status,
         status_match        |-> FALSE,
         planned_loss_db     |-> None,
         measured_loss_db    |-> measured_loss,
         loss_variance_db    |-> None,
         compliance_status   |-> "Major Deviation",
         remarks             |-> << <<"Cable built but not in original plan">> >>]

_create_unplanned_cable_result(cable_name, built, opm) ==
    LET built_length  == Get(built, "fiber_length_km", 0)
        built_status  == Get(built, "construction_status", STR_Unknown)
        measured_loss == IF opm # None THEN Some(opm[1].loss_db) ELSE None
    IN  [cable_id            |-> cable_name,
         planned_length_km   |-> 0,
         built_length_km     |-> built_length,
         length_variance_km  |-> built_length,
         length_variance_pct |-> 100,
         planned_status      |-> STR_NotPlanned,
         built_status        |-> built_status,
         status_match        |-> FALSE,
         planned_loss_db     |-> None,
         measured_loss_db    |-> measured_loss,
         loss_variance_db    |-> None,
         compliance_status   |-> "Major Deviation",
         remarks             |-> << <<"Cable built but not in original plan">> >>]

----------------------------------------------------------------------------
(* _generate_summary: {} when there is no comparison *)

EmptyDict == [k \in {} |-> 0]

\* whether the status occurs, not how often
CountStatus_Distinct(comparisons, status) ==
    Cardinality({comparisons[i].compliance_status : i \in DOMAIN comparisons}
                \cap {status})

CountStatus(comparisons, status) ==
    Cardinality({i \in DOMAIN comparisons : comparisons[i].compliance_status = status})

_generate_summary(comparisons) ==
    LET total == Len(comparisons)
        compliant == CountStatus(comparisons, "Compliant")
        minor_dev == CountStatus(comparisons, "Minor Deviation")
        major_dev == CountStatus(comparisons, "Major Deviation")
        total_planned_length ==
            SumSeq([i \in DOMAIN comparisons |-> comparisons[i].planned_length_km])
        total_built_length ==
            SumSeq([i \in DOMAIN comparisons |-> comparisons[i].built_length_km])
    IN  IF total = 0 THEN EmptyDict
        ELSE [total_cables                |-> total,
              compliant                   |-> compliant,
              minor_deviations            |-> minor_dev,
              major_deviations            |-> major_dev,
              compliance_rate             |-> RoundDiv(compliant * 10000, total),
              total_planned_length_km     |-> total_planned_length,
              total_built_length_km       |-> total_built_length,
              overall_length_variance_km  |-> total_built_length - total_planned_length,
              overall_length_variance_pct |->
                  IF total_planned_length > 0
                  THEN RoundDiv((total_built_length - total_planned_length) * 10000,
                                total_planned_length)
                  ELSE 0]

----------------------------------------------------------------------------
(* _identify_discrepancies: the non-compliant comparisons, then list.sort  *)
(* (stable) on severity_order                                              *)

\* no severity found in severity_order: every key is the default
SeverityOrder_AllDefault(severity) == 2

SeverityOrder(severity) ==
    IF severity = "Major Deviation" THEN 0
    ELSE IF severity = "Minor Deviation" THEN 1
    ELSE 2

\* an unstable sort: x goes before the elements of its own key
RECURSIVE InsertByKey_Unstable(_, _)
InsertByKey_Unstable(sorted, x) ==
    IF sorted = <<>> THEN <<x>>
    ELSE IF SeverityOrder(Head(sorted).severity) < SeverityOrder(x.severity)
    THEN <<Head(sorted)>> \o InsertByKey_Unstable(Tail(sorted), x)
    ELSE <<x>> \o sorted

\* list.sort(key=...): x goes after every element whose key is not greater
RECURSIVE InsertByKey(_, _)
InsertByKey(sorted, x) ==
    IF sorted = <<>> THEN <<x>>
    ELSE IF SeverityOrder(Head(sorted).severity) <= SeverityOrder(x.severity)
    THEN <<Head(sorted)>> \o InsertByKey(Tail(sorted), x)
    ELSE <<x>> \o sorted

RECURSIVE SortBySeverity(_)
SortBySeverity(s) ==
    IF s = <<>> THEN <<>>
    ELSE InsertByKey(SortBySeverity(SubSeq(s, 1, Len(s) - 1)), s[Len(s)])

Discrepancy(comp) ==
    [cable_id            |-> comp.cable_id,
     severity            |-> comp.compliance_status,
     length_variance_pct |-> comp.length_variance_pct,
     remarks             |-> comp.remarks]

IsDeviation(comp) ==
    comp.compliance_status \in {"Minor Deviation", "Major Deviation"}

_identify_discrepancies(comparisons) ==
    LET kept == SelectSeq(comparisons, IsDeviation)
    IN  SortBySeverity([i \in DOMAIN kept |-> Discrepancy(kept[i])])

----------------------------------------------------------------------------
(* _generate_recommendations *)

IsNotBuilt(comp) == comp.built_status = STR_NotBuilt

IsNotPlanned(comp) == comp.planned_status = STR_NotPlanned

\* the rates compared with > in place of >=
_generate_recommendations_StrictRates(comparisons, summary) ==
    LET not_built == SelectSeq(comparisons, IsNotBuilt)
        unplanned == SelectSeq(comparisons, IsNotPlanned)
        rate      == Get(summary, "compliance_rate", 0)
    IN  (IF Get(summary, "major_deviations", 0) > 0
         THEN << <<"Critical: Investigate major deviations immediately">>,
                 <<"Review cables with >10% length variance">> >>
         ELSE <<>>)
        \o
        (IF Get(summary, "minor_deviations", 0) > 0
         THEN << <<"Warning: Minor deviations detected">>,
                 <<"Document reasons for length variances">> >>
         ELSE <<>>)
        \o
        (IF rate > 9500
         THEN << <<"Excellent: Network implementation highly compliant with plan">> >>
         ELSE IF rate > 8500
         THEN << <<"Good: Network implementation mostly compliant">> >>
         ELSE << <<"Review: Multiple compliance issues detected">> >>)
        \o
        (IF not_built # <<>>
         THEN << <<"planned cables not yet built", Len(not_built)>> >>
         ELSE <<>>)
        \o
        (IF unplanned # <<>>
         THEN << <<"unplanned cables built - update design documentation",
                   Len(unplanned)>> >>
         ELSE <<>>)

_generate_recommendations(comparisons, summary) ==
    LET not_built == SelectSeq(comparisons, IsNotBuilt)
        unplanned == SelectSeq(comparisons, IsNotPlanned)
        rate      == Get(summary, "compliance_rate", 0)
    IN  (IF Get(summary, "major_deviations", 0) > 0
         THEN << <<"Critical: Investigate major deviations immediately">>,
                 <<"Review cables with >10% length variance">> >>
         ELSE <<>>)
        \o
        (IF Get(summary, "minor_deviations", 0) > 0
         THEN << <<"Warning: Minor deviations detected">>,
                 <<"Document reasons for length variances">> >>
         ELSE <<>>)
        \o
        (IF rate >= 9500
         THEN << <<"Excellent: Network implementation highly compliant with plan">> >>
         ELSE IF rate >= 8500
         THEN << <<"Good: Network implementation mostly compliant">> >>
         ELSE << <<"Review: Multiple compliance issues detected">> >>)
        \o
        (IF not_built # <<>>
         THEN << <<"planned cables not yet built", Len(not_built)>> >>
         ELSE <<>>)
        \o
        (IF unplanned # <<>>
         THEN << <<"unplanned cables built - update design documentation",
                   Len(unplanned)>> >>
         ELSE <<>>)

----------------------------------------------------------------------------
(* compare_networks *)

PlannedComparisons(planned_cables, built_cables, measurements) ==
    [i \in DOMAIN planned_cables.keys |->
        LET cable_name == planned_cables.keys[i]
        IN  _compare_cable(cable_name,
                           planned_cables.val[cable_name],
                           DictGet(built_cables, cable_name),
                           OpmLookup(measurements, cable_name))]

\* the membership test of line 96 left out
IsUnplanned_Always(planned_cables, cable_name) == TRUE

IsUnplanned(planned_cables, cable_name) == ~HasKey(planned_cables, cable_name)

UnplannedComparisons(planned_cables, built_cables, measurements) ==
    LET unplanned(cable_name) == IsUnplanned(planned_cables, cable_name)
        names == SelectSeq(built_cables.keys, unplanned)
    IN  [i \in DOMAIN names |->
            _create_unplanned_cable_result(names[i],
                                           built_cables.val[names[i]],
                                           OpmLookup(measurements, names[i]))]

compare_networks(planned, built, measurements) ==
    LET planned_cables == CableDict(planned)
        built_cables   == CableDict(built)
        cable_comparisons ==
            PlannedComparisons(planned_cables, built_cables, measurements)
            \o UnplannedComparisons(planned_cables, built_cables, measurements)
        summary == _generate_summary(cable_comparisons)
    IN  [cable_comparisons |-> cable_comparisons,
         summary           |-> summary,
         discrepancies     |-> _identify_discrepancies(cable_comparisons),
         recommendations   |-> _generate_recommendations(cable_comparisons, summary)]

----------------------------------------------------------------------------
(* Python string operations of kml_parser.py, on sequences of characters *)

\* the whitespace of \s and of str.strip() among the characters of the model
IsSpace(c) == c \in {" ", "\n", "\t"}

Digits == <<"0","1","2","3","4","5","6","7","8","9">>

IsDigit(c) == \E i \in DOMAIN Digits : Digits[i] = c

DigitValue(c) == (CHOOSE i \in DOMAIN Digits : Digits[i] = c) - 1

\* s[i:] of Python, for a 1-based i
From(s, i) == SubSeq(s, i, Len(s))

StartsWithAt(s, i, prefix) ==
    /\ i + Len(prefix) - 1 <= Len(s)
    /\ SubSeq(s, i, i + Len(prefix) - 1) = prefix

\* needle in hay
Contains(hay, needle) == \E i \in 1..(Len(hay) + 1) : StartsWithAt(hay, i, needle)

\* str.replace(old, ''): the occurrences of old, left to right, taken out
RECURSIVE Remove(_, _)
Remove(s, old) ==
    IF s = <<>> THEN <<>>
    ELSE IF StartsWithAt(s, 1, old) THEN Remove(From(s, Len(old) + 1), old)
    ELSE <<Head(s)>> \o Remove(Tail(s), old)

RECURSIVE LStrip(_)
LStrip(s) == IF s # <<>> /\ IsSpace(Head(s)) THEN LStrip(Tail(s)) ELSE s

RECURSIVE RStrip(_)
RStrip(s) ==
    IF s # <<>> /\ IsSpace(s[Len(s)]) THEN RStrip(SubSeq(s, 1, Len(s) - 1)) ELSE s

Strip(s) == RStrip(LStrip(s))

\* str.isdigit()
IsDigitStr(s) == s # <<>> /\ \A i \in DOMAIN s : IsDigit(s[i])

\* int(s) of a string of digits
RECURSIVE DigitsValue(_)
DigitsValue(s) ==
    IF s = <<>> THEN 0
    ELSE 10 * DigitsValue(SubSeq(s, 1, Len(s) - 1)) + DigitValue(s[Len(s)])

\* 10 ** n
RECURSIVE Pow10(_)
Pow10(n) == IF n = 0 THEN 1 ELSE 10 * Pow10(n - 1)

\* the digits after the point that a number of the model's inputs has
FractionDigits == 3

\* A float is a whole number of 10 ** -FractionDigits: of thousandths.
FloatScale == Pow10(FractionDigits)

\* float(s): Some(value), or None where float() raises ValueError.  The
\* strings of the model are made of digits, '.', letters, blanks and
\* punctuation: digits with at most one '.' and at most FractionDigits
\* digits after it convert, every other string of the model does not.
ParseFloat(s) ==
    LET t    == Strip(s)
        dots == {i \in DOMAIN t : t[i] = "."}
        dot  == IF dots = {} THEN Len(t) + 1 ELSE CHOOSE i \in dots : TRUE
        int_part  == SubSeq(t, 1, dot - 1)
        frac_part == SubSeq(t, dot + 1, Len(t))
    IN  IF /\ Cardinality(dots) <= 1
           /\ \A i \in DOMAIN t : IsDigit(t[i]) \/ t[i] = "."
           /\ int_part \o frac_part # <<>>
           /\ Len(frac_part) <= FractionDigits
        THEN Some(DigitsValue(int_part) * FloatScale
                  + DigitsValue(frac_part) * Pow10(FractionDigits - Len(frac_part)))
        ELSE None

----------------------------------------------------------------------------
(* KMLParser: classification *)

KW_tiang == <<"t","i","a","n","g">>

KW_pole == <<"p","o","l","e">>

KW_PU == <<"P","U","-">>

KW_designator_pu == <<"d","e","s","i","g","n","a","t","o","r",":","p","u">>

KW_odp == <<"o","d","p">>

KW_optical_distribution ==
    <<"o","p","t","i","c","a","l"," ","d","i","s","t","r","i","b","u","t","i","o","n">>

KW_splice == <<"s","p","l","i","c","e">>

KW_cable == <<"c","a","b","l","e">>

KW_kabel == <<"k","a","b","e","l">>

KW_fiber_length == <<"f","i","b","e","r"," ","l","e","n","g","t","h">>

KW_number_of_core == <<"n","u","m","b","e","r"," ","o","f"," ","c","o","r","e">>

KW_adss == <<"a","d","s","s">>

pole_indicators == <<KW_tiang, KW_pole, KW_PU, KW_designator_pu>>

odp_indicators == <<KW_odp, KW_optical_distribution, KW_splice>>

cable_indicators == <<KW_cable, KW_kabel, KW_fiber_length, KW_number_of_core, KW_adss>>

\* any(ind in name_lower or ind in desc_lower for ind in indicators)
AnyIndicator(indicators, name, description) ==
    LET name_lower == Lower(name)
        desc_lower == Lower(description)
    IN  \E k \in DOMAIN indicators :
            Contains(name_lower, indicators[k]) \/ Contains(desc_lower, indicators[k])

_is_pole(name, description) == AnyIndicator(pole_indicators, name, description)

_is_odp(name, description) == AnyIndicator(odp_indicators, name, description)

_is_cable(name, description) == AnyIndicator(cable_indicators, name, description)

_determine_type(name, description) ==
    IF _is_pole(name, description) THEN "pole"
    ELSE IF _is_odp(name, description) THEN "odp"
    ELSE IF _is_cable(name, description) THEN "cable"
    ELSE "unknown"

----------------------------------------------------------------------------
(* KMLParser: coordinates, labelled fields, lengths *)

\* The text of a coordinates element is the sequence of its blank-separated
\* parts, each part the sequence of its comma-separated values, and each
\* value Some(number) or, where float() raises, None.
CoordinateOf(values) ==
    [longitude |-> values[1][1],
     latitude  |-> values[2][1],
     altitude  |-> IF Len(values) > 2 THEN values[3][1] ELSE 0]

\* a part that yields a Coordinate; any other part is skipped
PartConverts(values) ==
    /\ Len(values) >= 2
    /\ values[1] # None
    /\ values[2] # None
    /\ Len(values) > 2 => values[3] # None

_parse_coordinates(coord_text) ==
    IF coord_text = None THEN <<>>
    ELSE LET parts == SelectSeq(coord_text[1], PartConverts)
         IN  [i \in DOMAIN parts |-> CoordinateOf(parts[i])]

\* the first index from i on whose character is not whitespace
RECURSIVE SkipSpace(_, _)
SkipSpace(s, i) == IF i <= Len(s) /\ IsSpace(s[i]) THEN SkipSpace(s, i + 1) ELSE i

\* the first index from i on whose character is a newline, or Len(s) + 1
RECURSIVE LineEnd(_, _)
LineEnd(s, i) == IF i <= Len(s) /\ s[i] # "\n" THEN LineEnd(s, i + 1) ELSE i

\* field_name\s*:\s*([^\n]+) matched at index i under re.IGNORECASE:
\* Some(group 1) or None.  The second \s* is greedy and gives characters
\* back only when nothing but whitespace follows the colon: the group then
\* starts at the last of them that is not a newline.
MatchFieldAt(description, field_name, i) ==
    IF ~StartsWithAt(Lower(description), i, Lower(field_name)) THEN None
    ELSE LET colon == SkipSpace(description, i + Len(field_name))
         IN  IF colon > Len(description) \/ description[colon] # ":" THEN None
             ELSE LET value == SkipSpace(description, colon + 1)
                      given == {k \in (colon + 1)..Len(description) :
                                   description[k] # "\n"}
                  IN  IF value <= Len(description)
                      THEN Some(SubSeq(description, value,
                                       LineEnd(description, value) - 1))
                      ELSE IF given # {}
                      THEN LET k == CHOOSE k \in given : \A j \in given : j <= k
                           IN  Some(SubSeq(description, k, LineEnd(description, k) - 1))
                      ELSE None

\* re.search: the match at the least index; then group(1).strip()
_extract_field(description, field_name) ==
    LET hits == {i \in DOMAIN description :
                    MatchFieldAt(description, field_name, i) # None}
    IN  IF hits = {} THEN None
        ELSE LET first == CHOOSE i \in hits : \A j \in hits : i <= j
             IN  Some(Strip(MatchFieldAt(description, field_name, first)[1]))

\* value or default, for an Optional[str]: None and '' give the default
OrDefault(value, default) ==
    IF value = None \/ value[1] = <<>> THEN default ELSE value[1]

KW_meter == <<"m","e","t","e","r">>

KW_m == <<"m">>

KW_km == <<"k","m">>

\* a float or, after ValueError, 0.0
FloatOrZero(s) == IF ParseFloat(s) = None THEN 0 ELSE ParseFloat(s)[1]

_parse_length(length_str) ==
    LET stripped == Strip(Remove(Remove(Lower(length_str), KW_meter), KW_m))
    IN  IF Contains(stripped, KW_km)
        THEN IF ParseFloat(Strip(Remove(stripped, KW_km))) = None THEN 0
             ELSE ParseFloat(Strip(Remove(stripped, KW_km)))[1] * 1000
        ELSE FloatOrZero(stripped)

----------------------------------------------------------------------------
(* KMLParser: the three entity parsers.  A placemark is a record of its    *)
(* name element, description element, Point/coordinates element and        *)
(* LineString/coordinates element: each is None where the element is       *)
(* missing and Some(text) otherwise, the text itself None for an element   *)
(* without text.                                                           *)

FIELD_Designator == <<"D","e","s","i","g","n","a","t","o","r">>

FIELD_ConstructionStatus ==
    <<"C","o","n","s","t","r","u","c","t","i","o","n"," ","S","t","a","t","u","s">>

FIELD_MaterialType == <<"M","a","t","e","r","i","a","l"," ","T","y","p","e">>

FIELD_Usage == <<"U","s","a","g","e">>

FIELD_SpecificationID ==
    <<"S","p","e","c","i","f","i","c","a","t","i","o","n"," ","I","D">>

FIELD_SpliceType == <<"S","p","l","i","c","e"," ","T","y","p","e">>

FIELD_Specification == <<"S","p","e","c","i","f","i","c","a","t","i","o","n">>

FIELD_NumberOfCore == <<"N","u","m","b","e","r"," ","o","f"," ","C","o","r","e">>

FIELD_FiberLength == <<"F","i","b","e","r"," ","L","e","n","g","t","h">>

STR_Telco == <<"T","e","l","c","o">>

\* Optional[Pole]
_parse_pole(placemark, name, description) ==
    LET point  == placemark.point
        coords == IF point = None THEN <<>> ELSE _parse_coordinates(point[1])
    IN  IF point = None \/ coords = <<>> THEN None
        ELSE Some([name                |-> name,
                   designator          |->
                       OrDefault(_extract_field(description, FIELD_Designator), name),
                   construction_status |->
                       OrDefault(_extract_field(description, FIELD_ConstructionStatus),
                                 STR_Unknown),
                   material_type       |->
                       OrDefault(_extract_field(description, FIELD_MaterialType),
                                 STR_Unknown),
                   usage               |->
                       OrDefault(_extract_field(description, FIELD_Usage), STR_Telco),
                   coordinates         |-> coords[1]])

\* Optional[ODP]
_parse_odp(placemark, name, description) ==
    LET point  == placemark.point
        coords == IF point = None THEN <<>> ELSE _parse_coordinates(point[1])
    IN  IF point = None \/ coords = <<>> THEN None
        ELSE Some([name                |-> name,
                   specification       |->
                       OrDefault(_extract_field(description, FIELD_SpecificationID),
                                 STR_Unknown),
                   splice_type         |->
                       OrDefault(_extract_field(description, FIELD_SpliceType),
                                 STR_Unknown),
                   construction_status |->
                       OrDefault(_extract_field(description, FIELD_ConstructionStatus),
                                 STR_Unknown),
                   coordinates         |-> coords[1]])

\* Optional[Cable]
_parse_cable(placemark, name, description) ==
    LET linestring == placemark.linestring
        coords     == IF linestring = None THEN <<>>
                      ELSE _parse_coordinates(linestring[1])
        cores_str  == _extract_field(description, FIELD_NumberOfCore)
        length_str == _extract_field(description, FIELD_FiberLength)
    IN  IF linestring = None \/ coords = <<>> THEN None
        ELSE Some([name                |-> name,
                   specification       |->
                       OrDefault(_extract_field(description, FIELD_Specification),
                                 STR_Unknown),
                   number_of_cores     |->
                       IF cores_str # None /\ IsDigitStr(cores_str[1])
                       THEN DigitsValue(cores_str[1]) ELSE 0,
                   fiber_length        |->
                       IF length_str # None /\ length_str[1] # <<>>
                       THEN _parse_length(length_str[1]) ELSE 0,
                   construction_status |->
                       OrDefault(_extract_field(description, FIELD_ConstructionStatus),
                                 STR_Unknown),
                   coordinates         |-> coords])

----------------------------------------------------------------------------
(* KMLParser._parse_placemark and parse_file, on the parser's four lists *)

NewParser == [poles |-> <<>>, odps |-> <<>>, cables |-> <<>>, raw_placemarks |-> <<>>]

\* name_elem.text if name_elem is not None else "Unknown": Optional[str]
NameOf(placemark) ==
    IF placemark.name = None THEN Some(STR_Unknown) ELSE placemark.name[1]

\* desc_elem.text if desc_elem is not None else ""
DescriptionOf(placemark) ==
    IF placemark.description = None THEN Some(<<>>) ELSE placemark.description[1]

\* name.lower() or description.lower() on None: AttributeError, caught at
\* line 145 before anything was appended
PlacemarkRaises(placemark) ==
    NameOf(placemark) = None \/ DescriptionOf(placemark) = None

AppendSome(list, value) == IF value = None THEN list ELSE Append(list, value[1])

\* PlacemarkEffect with the geometry deciding before the keywords: a
\* placemark is parsed as the first type, in the order pole, ODP, cable,
\* whose keywords match and whose parser returns an entity
PlacemarkEffect_ByGeometry(placemark) ==
    IF PlacemarkRaises(placemark)
    THEN [raises |-> TRUE]
    ELSE LET name        == NameOf(placemark)[1]
             description == DescriptionOf(placemark)[1]
             pole        == IF _is_pole(name, description)
                            THEN _parse_pole(placemark, name, description)
                            ELSE None
             odp         == IF _is_odp(name, description)
                            THEN _parse_odp(placemark, name, description)
                            ELSE None
             cable       == IF _is_cable(name, description)
                            THEN _parse_cable(placemark, name, description)
                            ELSE None
         IN  [raises |-> FALSE,
              list   |-> IF pole # None THEN "poles"
                         ELSE IF odp # None THEN "odps"
                         ELSE IF cable # None THEN "cables"
                         ELSE "none",
              entity |-> IF pole # None THEN pole
                         ELSE IF odp # None THEN odp
                         ELSE cable,
              raw    |-> [name        |-> name,
                          description |-> description,
                          type        |-> _determine_type(name, description)]]

\* What lines 116-143 do with one placemark: whether the try block raises
\* and, if not, the list appended to (the if/elif chain of lines 123-136),
\* the entity appended (None where nothing is appended) and the raw record.
PlacemarkEffect(placemark) ==
    IF PlacemarkRaises(placemark)
    THEN [raises |-> TRUE]
    ELSE LET name        == NameOf(placemark)[1]
             description == DescriptionOf(placemark)[1]
             list        == IF _is_pole(name, description) THEN "poles"
                            ELSE IF _is_odp(name, description) THEN "odps"
                            ELSE IF _is_cable(name, description) THEN "cables"
                            ELSE "none"
         IN  [raises |-> FALSE,
              list   |-> list,
              entity |-> IF list = "poles"
                         THEN _parse_pole(placemark, name, description)
                         ELSE IF list = "odps"
                         THEN _parse_odp(placemark, name, description)
                         ELSE IF list = "cables"
                         THEN _parse_cable(placemark, name, description)
                         ELSE None,
              raw    |-> [name        |-> name,
                          description |-> description,
                          type        |-> _determine_type(name, description)]]

\* the NetworkData of lines 102-107: the parser's own four lists
NetworkDataOf(self) ==
    [poles |-> self.poles, odps |-> self.odps, cables |-> self.cables,
     raw_placemarks |-> self.raw_placemarks]

----------------------------------------------------------------------------
(* Inputs of the model *)

ST_Planned == <<"P","l","a","n","n","e","d">>

ST_planned == <<"p","l","a","n","n","e","d">>

ST_InService == <<"I","n"," ","S","e","r","v","i","c","e">>

Statuses == {ST_Planned, ST_planned, ST_InService}

Cable(name, length, status) ==
    [name |-> name, fiber_length_km |-> length, construction_status |-> status]

\* a cable dict that has only its name: every .get() falls back to its default
BareCable(name) == [name |-> name]

Measurement(cable_id, loss) == [cable_id |-> cable_id, loss_db |-> loss]

PlannedCatalog ==
    { Cable("C1", 100, ST_Planned),
      Cable("C1", 0, ST_planned),
      Cable("C2", 100, ST_InService),
      Cable("C3", 20, ST_Planned),
      BareCable("C2") }

BuiltCatalog ==
    { Cable("C1", 100, ST_planned),
      Cable("C1", 106, ST_InService),
      Cable("C2", 120, ST_InService),
      Cable("C3", 21, ST_Planned),
      Cable("C3", 22, ST_InService),
      Cable("C4", 50, ST_InService) }

OpmOptions ==
    { <<>>,
      <<Measurement("C1", 3)>>,
      <<Measurement("C3", 0)>>,
      <<Measurement("C4", 2), Measurement("C2", 7), Measurement("C4", 9)>> }

MaxPlanned == 2

MaxBuilt == 2

SeqsUpTo(S, n) == UNION {[1..k -> S] : k \in 0..n}

----------------------------------------------------------------------------
(* The call of compare_networks *)

CompareNetworks ==
    /\ pc = "ready"
    /\ comparison' = Some(compare_networks(planned_data, built_data, opm_measurements))
    /\ pc' = "done"
    /\ UNCHANGED <<planned_data, built_data, opm_measurements, parser, calls,
                   link, opm_call, csv_file, csv_call>>

Init ==
    /\ planned_data \in SeqsUpTo(PlannedCatalog, MaxPlanned)
    /\ built_data \in SeqsUpTo(BuiltCatalog, MaxBuilt)
    /\ opm_measurements \in OpmOptions
    /\ comparison = None
    /\ pc = "ready"
    /\ parser = NewParser
    /\ calls = <<>>
    /\ link = NoLink
    /\ opm_call = None
    /\ csv_file = NoFile
    /\ csv_call = None

Next == CompareNetworks

Spec == Init /\ [][Next]_vars

----------------------------------------------------------------------------
(* _compare_cable on one planned cable and at most one built cable, over   *)
(* every built length up to MaxBuiltLength                                 *)

MaxBuiltLength == 125

PlannedLengths == {0, 20, 100}

CablePlanned ==
    {Cable("C1", l, s) : l \in PlannedLengths, s \in Statuses} \cup {BareCable("C1")}

CableBuilt ==
    {Cable(n, l, s) : n \in {"C1", "C2"}, l \in 0..MaxBuiltLength, s \in Statuses}
    \cup {BareCable("C1")}

CableOpm == {<<>>} \cup {<<Measurement("C1", l)>> : l \in {0, 3, 9}}

InitCable ==
    /\ planned_data \in {<<p>> : p \in CablePlanned}
    /\ built_data \in {<<>>} \cup {<<b>> : b \in CableBuilt}
    /\ opm_measurements \in CableOpm
    /\ comparison = None
    /\ pc = "ready"
    /\ parser = NewParser
    /\ calls = <<>>
    /\ link = NoLink
    /\ opm_call = None
    /\ csv_file = NoFile
    /\ csv_call = None

SpecCable == InitCable /\ [][Next]_vars

----------------------------------------------------------------------------
(* KMLParser: one parser object and the parse_file calls made on it *)

PM_Pole ==
    [name        |-> Some(Some(<<"T","i","a","n","g"," ","1">>)),
     description |-> Some(Some(<<"D","e","s","i","g","n","a","t","o","r",":",
         " ","P","7">>)),
     point       |-> Some(Some(<< <<Some(106), Some(-6), Some(12)>> >>)),
     linestring  |-> None]

PM_Odp ==
    [name        |-> Some(Some(<<"O","D","P","-","A">>)),
     description |-> None,
     point       |-> Some(Some(<< <<Some(107), Some(-7)>> >>)),
     linestring  |-> None]

PM_CableA ==
    [name        |-> Some(Some(<<"K","a","b","e","l"," ","A">>)),
     description |-> Some(Some(<<"F","i","b","e","r"," ","L","e","n","g","t",
         "h",":"," ","1","0","0","0","0","0","m","\n","C","o","n","s","t","r",
         "u","c","t","i","o","n"," ","S","t","a","t","u","s",":"," ","P","l",
         "a","n","n","e","d">>)),
     point       |-> None,
     linestring  |-> Some(Some(<< <<Some(106), Some(-6)>>,
                               <<Some(107), None>>,
                               <<Some(107), Some(-7), Some(0)>> >>))]

PM_CableB ==
    [name        |-> Some(Some(<<"C","a","b","l","e"," ","B">>)),
     description |-> Some(Some(<<"N","u","m","b","e","r"," ","o","f"," ","C",
         "o","r","e",":"," ","1","2","\n","F","i","b","e","r"," ","L","e","n",
         "g","t","h",":"," ","2","k","m">>)),
     point       |-> None,
     linestring  |-> Some(Some(<< <<Some(106), Some(-6)>>,
                               <<Some(108), Some(-6)>> >>))]

PM_Unknown ==
    [name        |-> Some(Some(<<"G","a","t","e">>)),
     description |-> None,
     point       |-> Some(Some(<< <<Some(105), Some(-5)>> >>)),
     linestring  |-> None]

PM_NoNameText ==
    [name        |-> Some(None),
     description |-> Some(Some(<<"K","a","b","e","l">>)),
     point       |-> None,
     linestring  |-> Some(Some(<< <<Some(106), Some(-6)>>,
                               <<Some(108), Some(-6)>> >>))]

PM_PoleLine ==
    [name        |-> Some(Some(<<"P","o","l","e"," ","c","a","b","l","e">>)),
     description |-> Some(Some(<<"C","o","n","s","t","r","u","c","t","i","o",
         "n"," ","S","t","a","t","u","s",":","\n","U","s","a","g","e",":"," ",
         "P","o","w","e","r">>)),
     point       |-> None,
     linestring  |-> Some(Some(<< <<Some(106), Some(-6)>>,
                               <<Some(108), Some(-6)>> >>))]

PM_NoName ==
    [name        |-> None,
     description |-> Some(Some(<<"s","p","l","i","c","e">>)),
     point       |-> Some(Some(<< <<Some(105)>> >>)),
     linestring  |-> Some(Some(<< <<Some(106), Some(-6)>> >>))]

Placemarks ==
    {PM_Pole, PM_Odp, PM_CableA, PM_CableB, PM_Unknown, PM_NoNameText,
     PM_PoleLine, PM_NoName}

\* PlacemarkEffect over the catalog, computed once
\* 'tiang' in upper case, in the name
PM_TIANG ==
    [name        |-> Some(Some(<<"T","I","A","N","G"," ","9">>)),
     description |-> None,
     point       |-> Some(Some(<< <<Some(106), Some(-6)>> >>)),
     linestring  |-> None]

\* 'pole' in mixed case, in the description
PM_PoLe ==
    [name        |-> Some(Some(<<"G","a","t","e"," ","2">>)),
     description |-> Some(Some(<<"P","o","L","e">>)),
     point       |-> Some(Some(<< <<Some(106), Some(-6)>> >>)),
     linestring  |-> None]

\* 'PU-' as the indicator list has it, in the name
PM_PU ==
    [name        |-> Some(Some(<<"P","U","-","7">>)),
     description |-> None,
     point       |-> Some(Some(<< <<Some(106), Some(-6)>> >>)),
     linestring  |-> None]

\* 'PU-' in lower case, in the description
PM_pu ==
    [name        |-> Some(Some(<<"B","o","x">>)),
     description |-> Some(Some(<<"p","u","-","7"," ","n","o","r","t","h">>)),
     point       |-> Some(Some(<< <<Some(106), Some(-6)>> >>)),
     linestring  |-> None]

\* 'designator:pu' in upper case, in the description
PM_DesignatorPU ==
    [name        |-> Some(Some(<<"B","o","x"," ","2">>)),
     description |-> Some(Some(<<"D","E","S","I","G","N","A","T","O","R",":",
         "P","U">>)),
     point       |-> Some(Some(<< <<Some(106), Some(-6)>> >>)),
     linestring  |-> None]

\* a pole whose 'Construction Status' label has nothing on its line
PM_EmptyField ==
    [name        |-> Some(Some(<<"T","i","a","n","g"," ","2">>)),
     description |-> Some(Some(<<"C","o","n","s","t","r","u","c","t","i","o",
         "n"," ","S","t","a","t","u","s",":","\n","U","s","a","g","e",":"," ",
         "P","o","w","e","r">>)),
     point       |-> Some(Some(<< <<Some(106), Some(-6)>> >>)),
     linestring  |-> None]

\* a pole whose 'Construction Status' label ends the description
PM_LastLabel ==
    [name        |-> Some(Some(<<"T","i","a","n","g"," ","3">>)),
     description |-> Some(Some(<<"U","s","a","g","e",":"," ","P","o","w","e",
         "r","\n","C","o","n","s","t","r","u","c","t","i","o","n"," ","S","t",
         "a","t","u","s",":">>)),
     point       |-> Some(Some(<< <<Some(106), Some(-6)>> >>)),
     linestring  |-> None]

\* placemarks with Points that try the indicators of _is_pole and the
\* labels of _extract_field
LabelPlacemarks ==
    {PM_TIANG, PM_PoLe, PM_PU, PM_pu, PM_DesignatorPU, PM_EmptyField,
     PM_LastLabel}

PlacemarkEffects ==
    {<<pm, PlacemarkEffect(pm)>> : pm \in Placemarks \cup LabelPlacemarks}

\* PlacemarkEffect(placemark), looked up where the placemark is of the catalog
EffectOf(placemark) ==
    IF placemark \in Placemarks \cup LabelPlacemarks
    THEN (CHOOSE e \in PlacemarkEffects : e[1] = placemark)[2]
    ELSE PlacemarkEffect(placemark)

_parse_placemark(self, placemark) ==
    LET effect == EffectOf(placemark)
    IN  IF effect.raises THEN self
        ELSE [poles  |-> IF effect.list = "poles"
                         THEN AppendSome(self.poles, effect.entity)
                         ELSE self.poles,
              odps   |-> IF effect.list = "odps"
                         THEN AppendSome(self.odps, effect.entity)
                         ELSE self.odps,
              cables |-> IF effect.list = "cables"
                         THEN AppendSome(self.cables, effect.entity)
                         ELSE self.cables,
              raw_placemarks |-> Append(self.raw_placemarks, effect.raw)]

\* for placemark in placemarks: self._parse_placemark(placemark)
RECURSIVE ParsePlacemarks(_, _)
ParsePlacemarks(self, placemarks) ==
    IF placemarks = <<>> THEN self
    ELSE ParsePlacemarks(_parse_placemark(self, Head(placemarks)), Tail(placemarks))

\* a document ET.parse accepts, with the Placemark elements findall yields
Document(placemarks) == [well_formed |-> TRUE, placemarks |-> placemarks]

\* a document ET.parse rejects
Malformed == [well_formed |-> FALSE, placemarks |-> <<>>]

MaxCalls == 2

\* the Placemark elements of all the documents given to one parser
MaxPlacemarks == 2

RECURSIVE PlacemarksGiven(_)
PlacemarksGiven(cs) ==
    IF cs = <<>> THEN 0
    ELSE Len(Head(cs).document.placemarks) + PlacemarksGiven(Tail(cs))

\* parse_file on a well-formed document: every placemark is parsed into the
\* parser's lists, and the NetworkData returned holds those lists
ParseFile(document) ==
    /\ Len(calls) < MaxCalls
    /\ document.well_formed
    /\ PlacemarksGiven(calls) + Len(document.placemarks) <= MaxPlacemarks
    /\ parser' = ParsePlacemarks(parser, document.placemarks)
    /\ calls' = Append(calls, [document     |-> document,
                               network_data |-> Some(NetworkDataOf(parser'))])
    /\ UNCHANGED <<planned_data, built_data, opm_measurements, comparison, pc,
                   link, opm_call, csv_file, csv_call>>

\* parse_file on a document that is not well-formed: ET.parse raises, the
\* error is logged and raised again, and the parser is as before
ParseFileRaises(document) ==
    /\ Len(calls) < MaxCalls
    /\ ~document.well_formed
    /\ calls' = Append(calls, [document |-> document, network_data |-> None])
    /\ UNCHANGED <<planned_data, built_data, opm_measurements, comparison, pc,
                   parser, link, opm_call, csv_file, csv_call>>

\* the NetworkData that the i-th call returned, as it is now: lines 102-107
\* hand the parser's own four lists to NetworkData, without a copy, so that
\* every NetworkData returned holds whatever the parser's lists hold
NetworkDataNow(i) == NetworkDataOf(parser)

Documents ==
    {Document(placemarks) : placemarks \in SeqsUpTo(Placemarks, MaxPlacemarks)}

InitParser ==
    /\ planned_data = <<>>
    /\ built_data = <<>>
    /\ opm_measurements = <<>>
    /\ comparison = None
    /\ pc = "ready"
    /\ parser = NewParser
    /\ calls = <<>>
    /\ link = NoLink
    /\ opm_call = None
    /\ csv_file = NoFile
    /\ csv_call = None

NextParser ==
    \/ \E document \in Documents : ParseFile(document)
    \/ ParseFileRaises(Malformed)

SpecParser == InitParser /\ [][NextParser]_vars

\* documents of the placemarks that try the indicators and the labels
LabelDocuments ==
    {Document(placemarks) : placemarks \in SeqsUpTo(LabelPlacemarks, MaxPlacemarks)}

NextLabels == \E document \in LabelDocuments : ParseFile(document)

SpecLabels == InitParser /\ [][NextLabels]_vars

----------------------------------------------------------------------------
(* What the properties below speak of *)

Result == comparison[1]

PlannedNames == {planned_data[i].name : i \in DOMAIN planned_data}

BuiltNames == {built_data[i].name : i \in DOMAIN built_data}

MeasuredNames == {opm_measurements[i].cable_id : i \in DOMAIN opm_measurements}

\* the cable a list holds for a name: the last one of that name
LastNamed(cables, name) ==
    cables[CHOOSE i \in DOMAIN cables :
              /\ cables[i].name = name
              /\ \A j \in (i + 1)..Len(cables) : cables[j].name # name]

LengthOf(cable) == IF "fiber_length_km" \in DOMAIN cable THEN cable.fiber_length_km ELSE 0

\* the results for the names in both lists
IsMatched(r) == r.cable_id \in PlannedNames \cap BuiltNames

IdsOf(entries) == [i \in DOMAIN entries |-> entries[i].cable_id]

----------------------------------------------------------------------------
\* C1: compare_networks returns exactly one ComparisonResult for each
\* distinct cable name of the planned or the built list, and none for any
\* other name.
C1_OneResultPerName ==
    pc = "done" =>
        LET cc == Result.cable_comparisons
        IN  /\ \A n \in PlannedNames \cup BuiltNames :
                   Cardinality({i \in DOMAIN cc : cc[i].cable_id = n}) = 1
            /\ \A i \in DOMAIN cc : cc[i].cable_id \in PlannedNames \cup BuiltNames

\* a call whose planned list repeats a name that the built list has too,
\* next to a name that only the built list has
C1_Witness ==
    /\ pc = "done"
    /\ Len(planned_data) = 2
    /\ planned_data[1].name = planned_data[2].name
    /\ planned_data[1].name \in BuiltNames
    /\ BuiltNames \ PlannedNames # {}
    /\ opm_measurements # <<>>
    /\ Len(Result.cable_comparisons) = 2

\* C3: a cable that is planned and not built gets built_length_km = 0,
\* length_variance_pct = -100, built_status 'Not Built', status_match false
\* and compliance_status 'Major Deviation', whatever its planned length and
\* whether or not it was measured.
C3_PlannedOnly ==
    pc = "done" =>
        \A i \in DOMAIN Result.cable_comparisons :
            LET r == Result.cable_comparisons[i]
            IN  r.cable_id \in PlannedNames \ BuiltNames =>
                    /\ r.built_length_km = 0
                    /\ r.length_variance_pct = -100
                    /\ r.built_status = STR_NotBuilt
                    /\ r.status_match = FALSE
                    /\ r.compliance_status = "Major Deviation"

\* a planned-only cable of length 0 that has a measurement
C3_Witness ==
    /\ pc = "done"
    /\ \E i \in DOMAIN Result.cable_comparisons :
           LET r == Result.cable_comparisons[i]
           IN  /\ r.cable_id \in (PlannedNames \ BuiltNames) \cap MeasuredNames
               /\ r.planned_length_km = 0
               /\ r.built_status = STR_NotBuilt

\* C4: a cable that is built and not planned gets planned_length_km = 0,
\* length_variance_pct = +100, planned_status 'Not Planned' and
\* compliance_status 'Major Deviation', whatever its built length.
C4_BuiltOnly ==
    pc = "done" =>
        \A i \in DOMAIN Result.cable_comparisons :
            LET r == Result.cable_comparisons[i]
            IN  r.cable_id \in BuiltNames \ PlannedNames =>
                    /\ r.planned_length_km = 0
                    /\ r.length_variance_pct = 100
                    /\ r.planned_status = STR_NotPlanned
                    /\ r.compliance_status = "Major Deviation"

\* a built-only cable of positive length, after a planned cable's result
C4_Witness ==
    /\ pc = "done"
    /\ PlannedNames # {}
    /\ \E i \in DOMAIN Result.cable_comparisons :
           LET r == Result.cable_comparisons[i]
           IN  /\ r.cable_id \in BuiltNames \ PlannedNames
               /\ r.built_length_km > 0
               /\ r.planned_status = STR_NotPlanned

\* C5: a matched cable with no measurement is 'Compliant' iff
\* |length_variance_pct| <= 5, 'Minor Deviation' iff 5 < |pct| <= 10 and
\* 'Major Deviation' iff |pct| > 10, and for a positive planned length
\* length_variance_pct is (built - planned) / planned * 100.
C5_LengthBands ==
    pc = "done" =>
        \A i \in DOMAIN Result.cable_comparisons :
            LET r == Result.cable_comparisons[i]
                a == Abs(r.length_variance_pct)
                planned == LengthOf(LastNamed(planned_data, r.cable_id))
                built   == LengthOf(LastNamed(built_data, r.cable_id))
            IN  (IsMatched(r) /\ r.cable_id \notin MeasuredNames) =>
                    /\ (r.compliance_status = "Compliant") <=> (a <= 5)
                    /\ (r.compliance_status = "Minor Deviation") <=> (5 < a /\ a <= 10)
                    /\ (r.compliance_status = "Major Deviation") <=> (a > 10)
                    /\ planned > 0 =>
                           r.length_variance_pct * planned = (built - planned) * 100

\* an unmeasured matched cable exactly 5 percent short of its plan
C5_Witness ==
    /\ pc = "done"
    /\ opm_measurements = <<>>
    /\ \E i \in DOMAIN Result.cable_comparisons :
           LET r == Result.cable_comparisons[i]
           IN  /\ IsMatched(r)
               /\ r.planned_length_km > 0
               /\ r.length_variance_pct = -5
               /\ r.compliance_status = "Compliant"

\* C6: a matched cable within the length tolerance that has a measurement
\* is 'Compliant' when the measured loss is within 0.5 dB of the planned
\* loss, and 'Minor Deviation' only when the loss variance exceeds 0.5 dB.
C6_LossTolerance ==
    pc = "done" =>
        \A i \in DOMAIN Result.cable_comparisons :
            LET r == Result.cable_comparisons[i]
            IN  (/\ IsMatched(r)
                 /\ Abs(r.length_variance_pct) <= 5
                 /\ r.measured_loss_db # None) =>
                    /\ (/\ r.planned_loss_db # None
                        /\ Abs(r.measured_loss_db[1] - r.planned_loss_db[1]) <= 5)
                           => r.compliance_status = "Compliant"
                    /\ r.compliance_status = "Minor Deviation" =>
                           /\ r.loss_variance_db # None
                           /\ Abs(r.loss_variance_db[1]) > 5

\* C7: in the discrepancies no 'Minor Deviation' entry comes before a
\* 'Major Deviation' entry.
C7_MajorBeforeMinor ==
    pc = "done" =>
        LET d == Result.discrepancies
        IN  \A i, j \in DOMAIN d :
                i < j => ~(/\ d[i].severity = "Minor Deviation"
                           /\ d[j].severity = "Major Deviation")

\* the comparisons hold a minor deviation before a major one
C7_Witness ==
    /\ pc = "done"
    /\ \E i, j \in DOMAIN Result.cable_comparisons :
           /\ i < j
           /\ Result.cable_comparisons[i].compliance_status = "Minor Deviation"
           /\ Result.cable_comparisons[j].compliance_status = "Major Deviation"
    /\ Len(Result.discrepancies) >= 2

HasStatus(entries, field, status) ==
    LET is(e) == e[field] = status
    IN  SelectSeq(entries, is)

\* C8: the discrepancies hold one entry for every comparison that is not
\* 'Compliant' and none for a compliant one, and the entries of one
\* severity stand in the order of their comparisons.
C8_DiscrepanciesStable ==
    pc = "done" =>
        LET d  == Result.discrepancies
            cc == Result.cable_comparisons
        IN  /\ \A i \in DOMAIN d :
                   d[i].severity \in {"Minor Deviation", "Major Deviation"}
            /\ \A s \in {"Minor Deviation", "Major Deviation"} :
                   IdsOf(HasStatus(d, "severity", s))
                       = IdsOf(HasStatus(cc, "compliance_status", s))
            /\ \A i \in DOMAIN d : \E j \in DOMAIN cc :
                   /\ cc[j].cable_id = d[i].cable_id
                   /\ cc[j].compliance_status = d[i].severity
                   /\ cc[j].length_variance_pct = d[i].length_variance_pct
                   /\ cc[j].remarks = d[i].remarks

\* two major deviations with a minor one between them, and a compliant cable
C8_Witness ==
    /\ pc = "done"
    /\ \E i, j, k \in DOMAIN Result.cable_comparisons :
           /\ i < j /\ j < k
           /\ Result.cable_comparisons[i].compliance_status = "Major Deviation"
           /\ Result.cable_comparisons[j].compliance_status = "Minor Deviation"
           /\ Result.cable_comparisons[k].compliance_status = "Major Deviation"
    /\ Len(Result.discrepancies) = 3

WithStatus(cable, status) ==
    [name |-> cable.name, fiber_length_km |-> LengthOf(cable),
     construction_status |-> status]

SameIgnoringCase(a, b) ==
    /\ Len(a) = Len(b)
    /\ \A i \in DOMAIN a : LowerChar(a[i]) = LowerChar(b[i])

StatusRemarks(remarks) == {i \in DOMAIN remarks : remarks[i][1] = "Status mismatch"}

\* C9: the compliance_status of a matched cable does not depend on the
\* construction statuses: the same pair under any other two statuses gets
\* the same compliance_status; and a pair whose statuses differ, compared
\* without regard to case, gets exactly one 'Status mismatch' remark, which
\* is the last of its remarks.
C9_StatusIndependent ==
    pc = "done" =>
        \A i \in DOMAIN Result.cable_comparisons :
            LET r == Result.cable_comparisons[i]
                planned == LastNamed(planned_data, r.cable_id)
                built   == LastNamed(built_data, r.cable_id)
                opm     == OpmLookup(opm_measurements, r.cable_id)
                same    == SameIgnoringCase(r.planned_status, r.built_status)
            IN  IsMatched(r) =>
                    /\ \A s1, s2 \in Statuses :
                           _compare_cable(r.cable_id, WithStatus(planned, s1),
                                          Some(WithStatus(built, s2)), opm).compliance_status
                               = r.compliance_status
                    /\ ~same => /\ StatusRemarks(r.remarks) = {Len(r.remarks)}
                                /\ r.remarks[Len(r.remarks)]
                                       = <<"Status mismatch", r.planned_status, r.built_status>>
                    /\ same => StatusRemarks(r.remarks) = {}

\* a matched pair 'Planned' / 'In Service' with a length remark and the
\* status remark after it
C9_Witness ==
    /\ pc = "done"
    /\ \E i \in DOMAIN Result.cable_comparisons :
           LET r == Result.cable_comparisons[i]
           IN  /\ IsMatched(r)
               /\ r.planned_status = ST_Planned
               /\ r.built_status = ST_InService
               /\ r.compliance_status = "Minor Deviation"
               /\ Len(r.remarks) = 2
               /\ r.remarks[2][1] = "Status mismatch"

TotalPlanned == SumSeq([i \in DOMAIN Result.cable_comparisons |->
                           Result.cable_comparisons[i].planned_length_km])

\* C10: the summary reports total_cables equal to the number of
\* ComparisonResults, compliant + minor_deviations + major_deviations =
\* total_cables, compliance_rate = compliant / total_cables * 100, and
\* overall_length_variance_pct = 0 when the total planned length is 0.
C10_Summary ==
    pc = "done" =>
        LET s == Result.summary
        IN  /\ "total_cables" \in DOMAIN s
            /\ s.total_cables = Len(Result.cable_comparisons)
            /\ s.compliant + s.minor_deviations + s.major_deviations = s.total_cables
            /\ s.compliance_rate * s.total_cables = s.compliant * 10000
            /\ TotalPlanned = 0 => s.overall_length_variance_pct = 0

\* C10, amended: with at least one ComparisonResult the summary reports
\* total_cables equal to their number, compliant + minor_deviations +
\* major_deviations = total_cables, compliance_rate = compliant /
\* total_cables * 100 rounded to two decimals, and
\* overall_length_variance_pct = 0 when the total planned length is 0;
\* with no ComparisonResult the summary is empty.
C10_SummaryAmended ==
    pc = "done" =>
        LET s  == Result.summary
            cc == Result.cable_comparisons
            compliant == Cardinality({i \in DOMAIN cc :
                                         cc[i].compliance_status = "Compliant"})
        IN  /\ cc = <<>> => DOMAIN s = {}
            /\ cc # <<>> =>
                   /\ s.total_cables = Len(cc)
                   /\ s.compliant = compliant
                   /\ s.compliant + s.minor_deviations + s.major_deviations
                          = s.total_cables
                   /\ 2 * Abs(s.compliance_rate * Len(cc) - compliant * 10000)
                          <= Len(cc)
                   /\ TotalPlanned = 0 => s.overall_length_variance_pct = 0

\* three results, one of them compliant (a rate of 33.33), two cables of
\* one status, and a total planned length of 0
C10_Witness ==
    /\ pc = "done"
    /\ Len(Result.cable_comparisons) = 3
    /\ Result.summary.compliant = 1
    /\ Result.summary.compliance_rate = 3333
    /\ Result.summary.major_deviations = 2
    /\ TotalPlanned = 0
    /\ Result.summary.total_built_length_km > 0

----------------------------------------------------------------------------
(* Claims about KMLParser.parse_file *)

\* what a parser that has parsed nothing before returns for the document
AloneNetworkData(document) ==
    NetworkDataOf(ParsePlacemarks(NewParser, document.placemarks))

\* C2: for any sequence of parse_file calls on one KMLParser, the
\* NetworkData each call returns holds exactly the poles, ODPs, cables and
\* raw placemarks of the document passed to that call, and nothing of the
\* documents parsed by earlier calls on the same parser.
C2_OnlyThisDocument ==
    \A i \in DOMAIN calls :
        calls[i].network_data # None =>
            calls[i].network_data[1] = AloneNetworkData(calls[i].document)

\* a second call whose NetworkData also holds a pole of the first document
C2_EarlierDocumentReturned ==
    /\ Len(calls) = 2
    /\ calls[1].document = Document(<<PM_Pole>>)
    /\ calls[2].document = Document(<<PM_CableA>>)
    /\ calls[2].network_data # None
    /\ Len(calls[2].network_data[1].poles) = 1
    /\ Len(calls[2].network_data[1].raw_placemarks) = 2


----------------------------------------------------------------------------
(* Floats of opm_calculator.py: rationals <<numerator, denominator>> in    *)
(* lowest terms, the denominator positive                                  *)

RECURSIVE GCD(_, _)
GCD(a, b) == IF b = 0 THEN a ELSE GCD(b, a % b)

\* n / d for d # 0, in lowest terms
Rat(n, d) ==
    LET sign == IF d < 0 THEN -1 ELSE 1
        g    == GCD(Abs(n), Abs(d))
    IN  <<(sign * n) \div g, (sign * d) \div g>>

\* an int, or a float that is a whole number
Whole(n) == <<n, 1>>

\* The sums and comparisons go through the least common denominator, which
\* keeps the integers of the model small.
Plus(x, y) ==
    LET g == GCD(x[2], y[2])
    IN  Rat(x[1] * (y[2] \div g) + y[1] * (x[2] \div g), (x[2] \div g) * y[2])

Minus(x, y) ==
    LET g == GCD(x[2], y[2])
    IN  Rat(x[1] * (y[2] \div g) - y[1] * (x[2] \div g), (x[2] \div g) * y[2])

Times(x, y) ==
    LET g == GCD(Abs(x[1]), y[2])
        h == GCD(Abs(y[1]), x[2])
    IN  Rat((x[1] \div g) * (y[1] \div h), (x[2] \div h) * (y[2] \div g))

\* x / y for y # 0; Python raises ZeroDivisionError for y = 0
Over(x, y) == Times(x, Rat(y[2], y[1]))

Leq(x, y) ==
    LET g == GCD(x[2], y[2])
    IN  x[1] * (y[2] \div g) <= y[1] * (x[2] \div g)

Less(x, y) ==
    LET g == GCD(x[2], y[2])
    IN  x[1] * (y[2] \div g) < y[1] * (x[2] \div g)

\* max(x, y) and min(x, y) of Python: the first argument where they are equal
Max(x, y) == IF Less(x, y) THEN y ELSE x

Min(x, y) == IF Less(y, x) THEN y ELSE x

\* round(x, 2): the nearest multiple of 1/100, a tie going to the even one
\* (the whole part is set apart before the fraction is scaled)
Round2(x) ==
    LET whole == x[1] \div x[2]
        rest  == x[1] % x[2]
    IN  Rat(100 * whole + RoundDiv(100 * rest, x[2]), 100)

----------------------------------------------------------------------------
(* OPMCalculator *)

\* _determine_status
_determine_status(available_margin) ==
    IF Leq(Whole(3), available_margin) THEN "OK"
    ELSE IF Leq(Whole(0), available_margin) THEN "Warning"
    ELSE "Critical"

\* _calculate_quality_score without its clamps
_calculate_quality_score_Unclamped(power_budget, total_loss, available_margin) ==
    IF Leq(power_budget, Whole(0)) THEN Whole(0)
    ELSE Plus(Times(Minus(Whole(1), Over(total_loss, power_budget)), Whole(40)),
              Times(Over(available_margin, Whole(10)), Whole(60)))

\* _calculate_quality_score with a margin over 10 dB earning nothing
_calculate_quality_score_NoCredit(power_budget, total_loss, available_margin) ==
    IF Leq(power_budget, Whole(0)) THEN Whole(0)
    ELSE Plus(Times(Max(Whole(0), Minus(Whole(1), Over(total_loss, power_budget))),
                    Whole(40)),
              IF Less(Whole(10), available_margin) THEN Whole(0)
              ELSE Max(Whole(0), Times(Over(available_margin, Whole(10)), Whole(60))))

\* _calculate_quality_score with the full 40 points of loss efficiency
\* whatever the loss
_calculate_quality_score_FullCredit(power_budget, total_loss, available_margin) ==
    IF Leq(power_budget, Whole(0)) THEN Whole(0)
    ELSE LET margin_adequacy ==
                 Min(Whole(60),
                     Max(Whole(0), Times(Over(available_margin, Whole(10)), Whole(60))))
         IN  Max(Whole(0), Min(Whole(100), Plus(Whole(40), margin_adequacy)))

\* _calculate_quality_score
_calculate_quality_score(power_budget, total_loss, available_margin) ==
    IF Leq(power_budget, Whole(0)) THEN Whole(0)
    ELSE LET loss_efficiency ==
                 Times(Max(Whole(0), Minus(Whole(1), Over(total_loss, power_budget))),
                       Whole(40))
             margin_adequacy ==
                 Min(Whole(60),
                     Max(Whole(0), Times(Over(available_margin, Whole(10)), Whole(60))))
             total_score == Plus(loss_efficiency, margin_adequacy)
         IN  Max(Whole(0), Min(Whole(100), total_score))

\* TotalLoss with the connectors left out
TotalLoss_NoConnectors(loss_params, segment) ==
    Plus(Times(segment.fiber_length_km, loss_params.fiber_loss_per_km),
         Times(Whole(segment.splice_count), loss_params.splice_loss))

\* total_loss of lines 109-112 and of lines 218-221
TotalLoss(loss_params, segment) ==
    LET fiber_loss     == Times(segment.fiber_length_km, loss_params.fiber_loss_per_km)
        splice_loss    == Times(Whole(segment.splice_count), loss_params.splice_loss)
        connector_loss == Times(Whole(segment.connector_count),
                                loss_params.connector_loss)
    IN  Plus(Plus(fiber_loss, splice_loss), connector_loss)

\* calculate_power_budget: the CalculationResult.  Of details, the loss
\* breakdown and the echoed numbers are kept; the echoed names are left out.
calculate_power_budget(optical_params, loss_params, segment) ==
    LET power_budget     == Minus(optical_params.tx_power,
                                  optical_params.rx_sensitivity)
        fiber_loss       == Times(segment.fiber_length_km,
                                  loss_params.fiber_loss_per_km)
        splice_loss      == Times(Whole(segment.splice_count), loss_params.splice_loss)
        connector_loss   == Times(Whole(segment.connector_count),
                                  loss_params.connector_loss)
        total_loss       == TotalLoss(loss_params, segment)
        available_margin == Minus(Minus(power_budget, total_loss),
                                  loss_params.safety_margin)
        status           == _determine_status(available_margin)
        quality_score    == _calculate_quality_score(power_budget, total_loss,
                                                     available_margin)
    IN  [power_budget     |-> Round2(power_budget),
         total_loss       |-> Round2(total_loss),
         available_margin |-> Round2(available_margin),
         status           |-> status,
         quality_score    |-> Round2(quality_score),
         details          |->
             [loss_breakdown   |-> [fiber_loss_db     |-> Round2(fiber_loss),
                                    splice_loss_db    |-> Round2(splice_loss),
                                    connector_loss_db |-> Round2(connector_loss),
                                    total_loss_db     |-> Round2(total_loss)],
              segment_details  |-> [fiber_length_km |-> segment.fiber_length_km,
                                    fiber_length_m  |->
                                        Times(segment.fiber_length_km, Whole(1000)),
                                    splice_count    |-> segment.splice_count,
                                    connector_count |-> segment.connector_count],
              safety_margin_db |-> loss_params.safety_margin,
              loss_per_km_db   |-> loss_params.fiber_loss_per_km]]

\* calculate_max_distance with the safety margin not subtracted
calculate_max_distance_NoSafetyMargin(optical_params, loss_params, splice_count, connector_count) ==
    LET power_budget == Minus(optical_params.tx_power, optical_params.rx_sensitivity)
        available_for_fiber ==
            Minus(Minus(power_budget,
                        Times(Whole(splice_count), loss_params.splice_loss)),
                  Times(Whole(connector_count), loss_params.connector_loss))
    IN  IF loss_params.fiber_loss_per_km = Whole(0) THEN None
        ELSE Some(Max(Whole(0),
                      Over(available_for_fiber, loss_params.fiber_loss_per_km)))

\* calculate_max_distance: Some(kilometres), or None where the division of
\* line 196 raises ZeroDivisionError
calculate_max_distance(optical_params, loss_params, splice_count, connector_count) ==
    LET power_budget == Minus(optical_params.tx_power, optical_params.rx_sensitivity)
        available_for_fiber ==
            Minus(Minus(Minus(power_budget,
                              Times(Whole(splice_count), loss_params.splice_loss)),
                        Times(Whole(connector_count), loss_params.connector_loss)),
                  loss_params.safety_margin)
    IN  IF loss_params.fiber_loss_per_km = Whole(0) THEN None
        ELSE Some(Max(Whole(0),
                      Over(available_for_fiber, loss_params.fiber_loss_per_km)))

\* calculate_required_tx_power with the safety margin not added
calculate_required_tx_power_NoSafetyMargin(rx_sensitivity, segment, loss_params) ==
    Round2(Plus(rx_sensitivity, TotalLoss(loss_params, segment)))

\* calculate_required_tx_power
calculate_required_tx_power(rx_sensitivity, segment, loss_params) ==
    LET total_loss  == TotalLoss(loss_params, segment)
        required_tx == Plus(Plus(rx_sensitivity, total_loss),
                            loss_params.safety_margin)
    IN  Round2(required_tx)


----------------------------------------------------------------------------
(* OPMCalculator: the inputs of the model and one call on them *)

\* dBm; the request model of the API admits -10..10
TxPowers == {Whole(-10), Whole(3), Whole(10)}

\* dBm; the request model of the API admits -40..-10, the calculator any float
RxSensitivities == {Whole(-28), Whole(-10), Whole(-8)}

\* dB/km; the request model of the API admits 0..2
FiberLossesPerKm == {Whole(0), Rat(1, 4), Rat(89, 256)}

\* dB per splice
SpliceLosses == {Whole(0), Rat(1, 8), Rat(1, 256)}

\* dB per connector
ConnectorLosses == {Rat(1, 2), Rat(3, 256)}

\* dB
SafetyMargins == {Whole(0), Whole(3), Rat(769, 256)}

\* km
FiberLengths == {Whole(0), Rat(5, 4), Whole(10), Whole(40), Whole(70)}

MaxSpliceCount == 2

MaxConnectorCount == 2

OpticalParameters(tx_power, rx_sensitivity) ==
    [tx_power |-> tx_power, rx_sensitivity |-> rx_sensitivity]

LossParameters(fiber_loss_per_km, splice_loss, connector_loss, safety_margin) ==
    [fiber_loss_per_km |-> fiber_loss_per_km,
     splice_loss       |-> splice_loss,
     connector_loss    |-> connector_loss,
     safety_margin     |-> safety_margin]

NetworkSegment(fiber_length_km, splice_count, connector_count) ==
    [fiber_length_km |-> fiber_length_km,
     splice_count    |-> splice_count,
     connector_count |-> connector_count]

Links ==
    {[optical_params |-> OpticalParameters(tx, rx),
      loss_params    |-> LossParameters(f, s, c, m),
      segment        |-> NetworkSegment(l, sc, cc)] :
        tx \in TxPowers, rx \in RxSensitivities, f \in FiberLossesPerKm,
        s \in SpliceLosses, c \in ConnectorLosses, m \in SafetyMargins,
        l \in FiberLengths, sc \in 0..MaxSpliceCount, cc \in 0..MaxConnectorCount}

\* calculator.calculate_power_budget(optical_params, loss_params, segment)
CalculatePowerBudget ==
    /\ link # NoLink
    /\ opm_call = None
    /\ opm_call' = Some([op     |-> "calculate_power_budget",
                         result |-> Some(calculate_power_budget(
                                        link.optical_params, link.loss_params,
                                        link.segment))])
    /\ UNCHANGED <<planned_data, built_data, opm_measurements, comparison, pc,
                   parser, calls, link, csv_file, csv_call>>

\* calculator.calculate_max_distance(optical, loss, splice_count, connector_count)
CalculateMaxDistance ==
    /\ link # NoLink
    /\ opm_call = None
    /\ opm_call' = Some([op     |-> "calculate_max_distance",
                         result |-> calculate_max_distance(
                                        link.optical_params, link.loss_params,
                                        link.segment.splice_count,
                                        link.segment.connector_count)])
    /\ UNCHANGED <<planned_data, built_data, opm_measurements, comparison, pc,
                   parser, calls, link, csv_file, csv_call>>

\* calculator.calculate_required_tx_power(rx_sensitivity, segment, loss_params)
CalculateRequiredTxPower ==
    /\ link # NoLink
    /\ opm_call = None
    /\ opm_call' = Some([op     |-> "calculate_required_tx_power",
                         result |-> Some(calculate_required_tx_power(
                                        link.optical_params.rx_sensitivity,
                                        link.segment, link.loss_params))])
    /\ UNCHANGED <<planned_data, built_data, opm_measurements, comparison, pc,
                   parser, calls, link, csv_file, csv_call>>

InitOpm ==
    /\ planned_data = <<>>
    /\ built_data = <<>>
    /\ opm_measurements = <<>>
    /\ comparison = None
    /\ pc = "ready"
    /\ parser = NewParser
    /\ calls = <<>>
    /\ link \in Links
    /\ opm_call = None
    /\ csv_file = NoFile
    /\ csv_call = None

NextOpm ==
    \/ CalculatePowerBudget
    \/ CalculateMaxDistance
    \/ CalculateRequiredTxPower

SpecOpm == InitOpm /\ [][NextOpm]_vars

----------------------------------------------------------------------------
(* Claims about OPMCalculator *)

\* the request models of api/analysis.py: what the API admits as input
InRange(k) ==
    /\ Leq(Whole(-10), k.optical_params.tx_power)
    /\ Leq(k.optical_params.tx_power, Whole(10))
    /\ Leq(Whole(-40), k.optical_params.rx_sensitivity)
    /\ Leq(k.optical_params.rx_sensitivity, Whole(-10))
    /\ Leq(Whole(0), k.loss_params.fiber_loss_per_km)
    /\ Leq(k.loss_params.fiber_loss_per_km, Whole(2))
    /\ Leq(Whole(0), k.loss_params.splice_loss)
    /\ Leq(k.loss_params.splice_loss, Whole(1))
    /\ Leq(Whole(0), k.loss_params.connector_loss)
    /\ Leq(k.loss_params.connector_loss, Whole(2))
    /\ Leq(Whole(0), k.loss_params.safety_margin)
    /\ Leq(k.loss_params.safety_margin, Whole(10))
    /\ Leq(Whole(0), k.segment.fiber_length_km)
    /\ k.segment.splice_count >= 0
    /\ k.segment.connector_count >= 0

Called(op) == opm_call # None /\ opm_call[1].op = op

\* the CalculationResult of a calculate_power_budget call
Budget == opm_call[1].result[1]

Within(x, y, tolerance) ==
    Leq(Minus(x, y), tolerance) /\ Leq(Minus(y, x), tolerance)

\* the formulas of the link budget on the inputs, nothing rounded
ExactPowerBudget(k) ==
    Minus(k.optical_params.tx_power, k.optical_params.rx_sensitivity)

ExactFiberLoss(k) ==
    Times(k.segment.fiber_length_km, k.loss_params.fiber_loss_per_km)

ExactSpliceLoss(k) ==
    Times(Whole(k.segment.splice_count), k.loss_params.splice_loss)

ExactConnectorLoss(k) ==
    Times(Whole(k.segment.connector_count), k.loss_params.connector_loss)

ExactTotalLoss(k) ==
    Plus(Plus(ExactFiberLoss(k), ExactSpliceLoss(k)), ExactConnectorLoss(k))

ExactMargin(k) ==
    Minus(Minus(ExactPowerBudget(k), ExactTotalLoss(k)), k.loss_params.safety_margin)

\* the two formulas on the fields of the returned result
ReturnedTotalIsSum ==
    Budget.total_loss =
        Plus(Plus(Budget.details.loss_breakdown.fiber_loss_db,
                  Budget.details.loss_breakdown.splice_loss_db),
             Budget.details.loss_breakdown.connector_loss_db)

ReturnedMarginIsDifference ==
    Budget.available_margin =
        Minus(Minus(Budget.power_budget, Budget.total_loss),
              link.loss_params.safety_margin)

\* C11 as stated: for every valid (optical, loss, segment) the values that
\* calculate_power_budget returns satisfy total_loss = fiber_loss +
\* splice_loss + connector_loss (the reported breakdown) and
\* available_margin = power_budget - total_loss - safety_margin, exactly.
C11_ExactFormulas ==
    (Called("calculate_power_budget") /\ InRange(link)) =>
        (ReturnedTotalIsSum /\ ReturnedMarginIsDifference)

\* C11 amended: each returned value is its formula, computed on the
\* unrounded inputs, rounded to two decimals; so the returned total_loss is
\* within 0.02 dB of the sum of the reported breakdown, and the returned
\* available_margin within 0.02 dB of power_budget - total_loss -
\* safety_margin on the returned values.
C11_FormulasRounded ==
    (Called("calculate_power_budget") /\ InRange(link)) =>
        /\ Budget.power_budget = Round2(ExactPowerBudget(link))
        /\ Budget.details.loss_breakdown.fiber_loss_db = Round2(ExactFiberLoss(link))
        /\ Budget.details.loss_breakdown.splice_loss_db =
               Round2(ExactSpliceLoss(link))
        /\ Budget.details.loss_breakdown.connector_loss_db =
               Round2(ExactConnectorLoss(link))
        /\ Budget.total_loss = Round2(ExactTotalLoss(link))
        /\ Budget.details.loss_breakdown.total_loss_db = Budget.total_loss
        /\ Budget.available_margin = Round2(ExactMargin(link))
        /\ Within(Budget.total_loss,
                  Plus(Plus(Budget.details.loss_breakdown.fiber_loss_db,
                            Budget.details.loss_breakdown.splice_loss_db),
                       Budget.details.loss_breakdown.connector_loss_db),
                  Rat(2, 100))
        /\ Within(Budget.available_margin,
                  Minus(Minus(Budget.power_budget, Budget.total_loss),
                        link.loss_params.safety_margin),
                  Rat(2, 100))

\* a valid input whose returned total_loss is not the sum of the reported
\* breakdown, all three losses being positive
C11_Witness ==
    /\ Called("calculate_power_budget")
    /\ InRange(link)
    /\ ~ReturnedTotalIsSum
    /\ Less(Whole(0), Budget.details.loss_breakdown.fiber_loss_db)
    /\ Less(Whole(0), Budget.details.loss_breakdown.splice_loss_db)
    /\ Less(Whole(0), Budget.details.loss_breakdown.connector_loss_db)

\* C12: in every CalculationResult that calculate_power_budget returns, the
\* status agrees with the returned available_margin: 'OK' iff
\* available_margin >= 3.0, 'Warning' iff 0 <= available_margin < 3.0,
\* 'Critical' iff available_margin < 0.
C12_StatusAgrees ==
    Called("calculate_power_budget") =>
        /\ Budget.status = "OK" <=> Leq(Whole(3), Budget.available_margin)
        /\ Budget.status = "Warning" <=>
               (Leq(Whole(0), Budget.available_margin)
                /\ Less(Budget.available_margin, Whole(3)))
        /\ Budget.status = "Critical" <=> Less(Budget.available_margin, Whole(0))

\* a valid input whose result reports an available_margin of 3.0 under the
\* status 'Warning'
C12_WarningAtThree ==
    /\ Called("calculate_power_budget")
    /\ InRange(link)
    /\ Budget.status = "Warning"
    /\ Budget.available_margin = Whole(3)

\* a valid input whose result reports an available_margin of 0.0 under the
\* status 'Critical'
C12_CriticalAtZero ==
    /\ Called("calculate_power_budget")
    /\ InRange(link)
    /\ Budget.status = "Critical"
    /\ Budget.available_margin = Whole(0)

\* C13: for every input of calculate_power_budget, quality_score lies in
\* [0, 100], and it is 0 whenever power_budget = tx_power - rx_sensitivity
\* is at most 0.
C13_ScoreBounded ==
    Called("calculate_power_budget") =>
        /\ Leq(Whole(0), Budget.quality_score)
        /\ Leq(Budget.quality_score, Whole(100))
        /\ Leq(ExactPowerBudget(link), Whole(0)) => Budget.quality_score = Whole(0)

\* a call with a negative power budget and a positive loss
C13_Witness ==
    /\ Called("calculate_power_budget")
    /\ Less(ExactPowerBudget(link), Whole(0))
    /\ Less(Whole(0), ExactTotalLoss(link))
    /\ Budget.quality_score = Whole(0)

\* a call whose score is the upper end of the range, the margin being over
\* 10 dB and the loss zero
C13_WitnessFull ==
    /\ Called("calculate_power_budget")
    /\ Less(Whole(10), ExactMargin(link))
    /\ ExactTotalLoss(link) = Whole(0)
    /\ Budget.quality_score = Whole(100)

\* available margins, in dB, below, inside and above the range 0..10 that
\* the score rewards
Margins ==
    {Whole(-3), Rat(-1, 2), Whole(0), Rat(1, 256), Whole(1), Whole(3), Whole(5),
     Rat(39, 4), Whole(10), Rat(81, 8), Whole(12)}

\* the score of the budget and loss of the link, as a function of the margin
ScoreAt(available_margin) ==
    _calculate_quality_score(ExactPowerBudget(link), ExactTotalLoss(link),
                             available_margin)

\* C14: for fixed power_budget and total_loss the quality score is
\* monotonically non-decreasing in available_margin: m1 <= m2 implies
\* score(budget, loss, m1) <= score(budget, loss, m2).  The score returned
\* by the call, which is the score at the margin of the link rounded to two
\* decimals, lies between the rounded scores at lesser and greater margins.
C14_ScoreMonotone ==
    Called("calculate_power_budget") =>
        LET score == [m \in Margins |-> ScoreAt(m)]
        IN  /\ \A m1 \in Margins, m2 \in Margins :
                   Leq(m1, m2) => Leq(score[m1], score[m2])
            /\ \A m \in Margins :
                   /\ Leq(m, ExactMargin(link)) =>
                          Leq(Round2(score[m]), Budget.quality_score)
                   /\ Leq(ExactMargin(link), m) =>
                          Leq(Budget.quality_score, Round2(score[m]))

\* a call whose score is strictly less than the score at a greater margin
\* and equal to the score at another greater margin
C14_Witness ==
    /\ Called("calculate_power_budget")
    /\ \E m1 \in Margins, m2 \in Margins :
           /\ Less(ExactMargin(link), m1)
           /\ Less(m1, m2)
           /\ Less(Budget.quality_score, Round2(ScoreAt(m1)))
           /\ ScoreAt(m1) = ScoreAt(m2)

\* what is left for the fiber: the budget less the splice and connector
\* losses and the safety margin
ExactAvailableForFiber(k) ==
    Minus(Minus(Minus(ExactPowerBudget(k), ExactSpliceLoss(k)),
                ExactConnectorLoss(k)),
          k.loss_params.safety_margin)

\* the value a call returned, where it returned
Returned == opm_call[1].result[1]

\* the available_margin of calculate_power_budget on the link with the
\* fiber length replaced
MarginAtLength(fiber_length_km) ==
    calculate_power_budget(
        link.optical_params, link.loss_params,
        NetworkSegment(fiber_length_km, link.segment.splice_count,
                       link.segment.connector_count)).available_margin

\* C15 as stated: for all valid optical and loss parameters and counts, the
\* output of calculate_max_distance used as segment.fiber_length_km (same
\* counts) in calculate_power_budget yields an available_margin of
\* approximately 0: 0 to the two decimals of the result.
C15_MaxDistanceInverse ==
    (Called("calculate_max_distance") /\ InRange(link)
     /\ opm_call[1].result # None) =>
        Within(MarginAtLength(Returned), Whole(0), Rat(1, 100))

\* C15 amended: the margin is 0 where the budget covers the splice and
\* connector losses and the safety margin.  Where it does not, the distance
\* returned is the floor 0 and the margin at that length is the (negative)
\* shortfall, rounded to two decimals.
C15_MaxDistanceInverseWhereCovered ==
    (Called("calculate_max_distance") /\ InRange(link)
     /\ opm_call[1].result # None) =>
        IF Leq(Whole(0), ExactAvailableForFiber(link))
        THEN MarginAtLength(Returned) = Whole(0)
        ELSE /\ Returned = Whole(0)
             /\ MarginAtLength(Returned) = Round2(ExactAvailableForFiber(link))

\* a valid input with a positive maximum distance that is not a whole
\* number of kilometres, and margin 0 at that distance
C15_Witness ==
    /\ Called("calculate_max_distance")
    /\ InRange(link)
    /\ opm_call[1].result # None
    /\ Less(Whole(0), Returned)
    /\ Returned[2] # 1
    /\ MarginAtLength(Returned) = Whole(0)

\* a valid input whose maximum distance is the floor 0 and whose margin at
\* that distance is below -1 dB
C15_WitnessFloored ==
    /\ Called("calculate_max_distance")
    /\ InRange(link)
    /\ opm_call[1].result # None
    /\ Returned = Whole(0)
    /\ Less(MarginAtLength(Returned), Whole(-1))

\* C16: for every in-range input (all loss coefficients non-negative,
\* fiber_loss_per_km = 0 included, and non-negative counts)
\* calculate_max_distance does not raise and returns a non-negative number.
C16_MaxDistanceTotal ==
    (Called("calculate_max_distance") /\ InRange(link)) =>
        /\ opm_call[1].result # None
        /\ Leq(Whole(0), Returned)

\* an in-range input with fiber_loss_per_km = 0 on which the call raised
C16_DivisionByZero ==
    /\ Called("calculate_max_distance")
    /\ InRange(link)
    /\ link.loss_params.fiber_loss_per_km = Whole(0)
    /\ opm_call[1].result = None

\* the tx_power of the link replaced
WithTxPower(tx_power) ==
    OpticalParameters(tx_power, link.optical_params.rx_sensitivity)

\* rx_sensitivity + total_loss + safety_margin, nothing rounded
ExactRequiredTx(k) ==
    Plus(Plus(k.optical_params.rx_sensitivity, ExactTotalLoss(k)),
         k.loss_params.safety_margin)

\* C17 as stated: calculate_required_tx_power returns rx_sensitivity +
\* total_loss + safety_margin, and calculate_power_budget on the same
\* segment and loss parameters with tx_power set to that value yields an
\* available_margin of approximately 0.
C17_RequiredTxInverse ==
    Called("calculate_required_tx_power") =>
        /\ Returned = ExactRequiredTx(link)
        /\ Within(calculate_power_budget(WithTxPower(Returned), link.loss_params,
                                         link.segment).available_margin,
                  Whole(0), Rat(1, 100))

\* C17 amended: the value returned is rx_sensitivity + total_loss +
\* safety_margin rounded to two decimals, so within 0.005 dB of the sum;
\* the available_margin at that tx_power is 0 to the two decimals of the
\* result (within 0.01 dB: the rounded power is no binary fraction, and at
\* a tie the float subtraction of the code may fall to either side).
C17_RequiredTxRoundedInverse ==
    Called("calculate_required_tx_power") =>
        /\ Returned = Round2(ExactRequiredTx(link))
        /\ Within(Returned, ExactRequiredTx(link), Rat(5, 1000))
        /\ Within(calculate_power_budget(WithTxPower(Returned), link.loss_params,
                                         link.segment).available_margin,
                  Whole(0), Rat(1, 100))

\* a call whose returned power is not the unrounded sum, the loss and the
\* safety margin being positive
C17_Witness ==
    /\ Called("calculate_required_tx_power")
    /\ Returned # ExactRequiredTx(link)
    /\ Less(Whole(0), ExactTotalLoss(link))
    /\ Less(Whole(0), link.loss_params.safety_margin)
    /\ calculate_power_budget(WithTxPower(Returned), link.loss_params,
                              link.segment).available_margin = Whole(0)

----------------------------------------------------------------------------
(* Claims about KMLParser._parse_placemark and its entity parsers *)

\* the placemarks of all the documents parsed so far, in order
RECURSIVE GivenIn(_)
GivenIn(cs) ==
    IF cs = <<>> THEN <<>>
    ELSE IF Head(cs).network_data = None THEN GivenIn(Tail(cs))
    ELSE Head(cs).document.placemarks \o GivenIn(Tail(cs))

Given == GivenIn(calls)

\* the first keyword set, in the order pole, ODP, cable, that the name or
\* the description of a placemark matches; "none" for a placemark whose
\* name or description has no text to match
CategoryOf(placemark) ==
    IF PlacemarkRaises(placemark) THEN "none"
    ELSE LET name        == NameOf(placemark)[1]
             description == DescriptionOf(placemark)[1]
         IN  IF _is_pole(name, description) THEN "pole"
             ELSE IF _is_odp(name, description) THEN "odp"
             ELSE IF _is_cable(name, description) THEN "cable"
             ELSE "unknown"

\* the placemarks given that are of a category
GivenOf(category) ==
    {i \in DOMAIN Given : CategoryOf(Given[i]) = category}

\* every entity of a list bears the name of a placemark of the category
NamedAfter(list, category) ==
    \A j \in DOMAIN list :
        \E i \in GivenOf(category) : NameOf(Given[i]) = Some(list[j].name)

\* C18: each placemark contributes at most one entity to at most one of
\* poles, odps, cables, and its category is the first one matched in the
\* order pole, distribution point, cable: a placemark matching a
\* higher-priority keyword set is never parsed as a lower-priority type,
\* even when its geometry only fits the lower-priority type.
C18_FirstCategoryOnly ==
    /\ Len(parser.poles) <= Cardinality(GivenOf("pole"))
    /\ Len(parser.odps) <= Cardinality(GivenOf("odp"))
    /\ Len(parser.cables) <= Cardinality(GivenOf("cable"))
    /\ NamedAfter(parser.poles, "pole")
    /\ NamedAfter(parser.odps, "odp")
    /\ NamedAfter(parser.cables, "cable")

\* 'Pole cable', which matches the pole and the cable keywords and has a
\* LineString and no Point, was parsed and is in no collection
C18_Witness ==
    /\ Len(Given) = 1
    /\ Given[1] = PM_PoleLine
    /\ CategoryOf(PM_PoleLine) = "pole"
    /\ _is_cable(NameOf(PM_PoleLine)[1], DescriptionOf(PM_PoleLine)[1])
    /\ _parse_cable(PM_PoleLine, NameOf(PM_PoleLine)[1],
                    DescriptionOf(PM_PoleLine)[1]) # None
    /\ parser.poles = <<>>
    /\ parser.odps = <<>>
    /\ parser.cables = <<>>
    /\ Len(parser.raw_placemarks) = 1

\* the raw records a call added: those beyond the records that the latest
\* earlier call that returned had returned
RECURSIVE RawBefore(_)
RawBefore(i) ==
    IF i = 1 THEN 0
    ELSE IF calls[i - 1].network_data = None THEN RawBefore(i - 1)
    ELSE Len(calls[i - 1].network_data[1].raw_placemarks)

RawAdded(i) ==
    LET raw == calls[i].network_data[1].raw_placemarks
    IN  SubSeq(raw, RawBefore(i) + 1, Len(raw))

\* the name recorded for a placemark whose name is known: the text of its
\* name element, 'Unknown' for a placemark without name element
RecordedName(placemark) ==
    IF placemark.name = None THEN Some(<<"U","n","k","n","o","w","n">>)
    ELSE placemark.name[1]

\* C19: after parse_file on a well-formed document, raw_placemarks has
\* exactly one entry per Placemark node of the document, in document
\* order, whatever the node's name, description or geometry.
C19_OneRawEntryPerPlacemark ==
    \A i \in DOMAIN calls :
        calls[i].network_data # None =>
            LET placemarks == calls[i].document.placemarks
                added      == RawAdded(i)
            IN  /\ Len(added) = Len(placemarks)
                /\ \A k \in DOMAIN placemarks :
                       RecordedName(placemarks[k]) # None =>
                           added[k].name = RecordedName(placemarks[k])[1]

\* a document of one placemark, whose name element is empty, was parsed by
\* a new parser and raw_placemarks is empty
C19_EmptyNameNotRecorded ==
    /\ Len(calls) = 1
    /\ calls[1].document = Document(<<PM_NoNameText>>)
    /\ calls[1].network_data # None
    /\ calls[1].network_data[1].raw_placemarks = <<>>

\* s ends with the suffix
EndsWith(s, suffix) ==
    /\ Len(s) >= Len(suffix)
    /\ SubSeq(s, Len(s) - Len(suffix) + 1, Len(s)) = suffix

\* s without its last n characters
DropLast(s, n) == SubSeq(s, 1, Len(s) - n)

\* the meters that a value 'N m' or 'N km' stands for: Some(meters), None
\* for a value that is not a number followed by one of the two units
MetersOf(value) ==
    IF EndsWith(value, <<"k","m">>) /\ ParseFloat(DropLast(value, 2)) # None
    THEN Some(ParseFloat(DropLast(value, 2))[1] * 1000)
    ELSE IF EndsWith(value, <<"m">>) /\ ParseFloat(DropLast(value, 1)) # None
    THEN Some(ParseFloat(DropLast(value, 1))[1])
    ELSE None

\* the 'Fiber Length' value of a placemark that is parsed as a cable and
\* has a LineString with coordinates; None for any other placemark
FiberLengthValue(placemark) ==
    IF CategoryOf(placemark) # "cable" THEN None
    ELSE IF _parse_cable(placemark, NameOf(placemark)[1],
                         DescriptionOf(placemark)[1]) = None THEN None
    ELSE _extract_field(DescriptionOf(placemark)[1], FIELD_FiberLength)

\* the cables that were built from a placemark
CablesNamed(name) ==
    {j \in DOMAIN parser.cables : Some(parser.cables[j].name) = name}

\* C20: a cable's 'Fiber Length' value with a trailing 'm' or 'km' unit
\* suffix is normalized to meters: a value N followed by 'm' yields
\* fiber_length = N and a value N followed by 'km' yields
\* fiber_length = N * 1000.
C20_UnitSuffixNormalized ==
    \A i \in DOMAIN Given :
        LET value == FiberLengthValue(Given[i])
        IN  (value # None /\ MetersOf(value[1]) # None) =>
                /\ CablesNamed(NameOf(Given[i])) # {}
                /\ \A j \in CablesNamed(NameOf(Given[i])) :
                       parser.cables[j].fiber_length = MetersOf(value[1])[1]

\* 'Cable B' with 'Fiber Length: 2km' was parsed and its fiber_length is 0,
\* after 'Kabel A' with 'Fiber Length: 100000m' got 100000 meters
C20_KmGivesZero ==
    /\ Given = <<PM_CableA, PM_CableB>>
    /\ FiberLengthValue(PM_CableA) = Some(<<"1","0","0","0","0","0","m">>)
    /\ FiberLengthValue(PM_CableB) = Some(<<"2","k","m">>)
    /\ MetersOf(<<"2","k","m">>) = Some(2000 * FloatScale)
    /\ Len(parser.cables) = 2
    /\ parser.cables[1].fiber_length = 100000 * FloatScale
    /\ parser.cables[2].fiber_length = 0

----------------------------------------------------------------------------
(* CSVMeasurementParser (services/csv_parser.py) *)

\* _get_value(row, possible_keys, default): the stripped value of the first
\* key that the row has with a value that is neither None nor ''
RECURSIVE _get_value(_, _, _)
_get_value(row, possible_keys, default) ==
    IF possible_keys = <<>> THEN default
    ELSE LET key == Head(possible_keys)
         IN  IF /\ key \in DOMAIN row
                /\ row[key] # None
                /\ row[key][1] # <<>>
             THEN Strip(row[key][1])
             ELSE _get_value(row, Tail(possible_keys), default)

\* float(s) of a stripped text with an optional sign: Some(value) in units
\* of 1/FloatScale, None where float() raises ValueError.  The texts of
\* the model hold no exponent, underscore, 'nan' or 'inf'.
CsvFloat(s) ==
    IF s # <<>> /\ Head(s) \in {"-", "+"}
    THEN IF Tail(s) = <<>> \/ IsSpace(Head(Tail(s))) \/ ParseFloat(Tail(s)) = None
         THEN None
         ELSE Some((IF Head(s) = "-" THEN -1 ELSE 1) * ParseFloat(Tail(s))[1])
    ELSE ParseFloat(s)

\* int(s) of a stripped text with an optional sign: Some(value), None where
\* int() raises ValueError (a text with a decimal point included)
CsvInt(s) ==
    IF s # <<>> /\ Head(s) \in {"-", "+"}
    THEN IF IsDigitStr(Tail(s))
         THEN Some((IF Head(s) = "-" THEN -1 ELSE 1) * DigitsValue(Tail(s)))
         ELSE None
    ELSE IF IsDigitStr(s) THEN Some(DigitsValue(s)) ELSE None

KEYS_cable_id == <<"Cable ID", "CableID", "Cable_ID", "cable_id">>

KEYS_segment_name == <<"Segment", "Segment Name", "segment">>

KEYS_measurement_date == <<"Date", "Measurement Date", "date">>

KEYS_tx_power_dbm == <<"Tx Power (dBm)", "Tx Power", "tx_power">>

KEYS_rx_power_dbm == <<"Rx Power (dBm)", "Rx Power", "rx_power">>

KEYS_loss_db == <<"Loss (dB)", "Loss", "loss">>

KEYS_length_km == <<"Length (km)", "Length", "length">>

KEYS_wavelength_nm == <<"Wavelength (nm)", "Wavelength", "wavelength">>

KEYS_status == <<"Status", "Test Status", "status">>

KEYS_remarks == <<"Remarks", "Notes", "remarks">>

KEYS_measured_by == <<"Measured By", "Technician", "measured_by">>

\* lines 76-88 on one row: Some(OPMMeasurement), None where float() or
\* int() raises the ValueError that line 90 catches
OPMMeasurementOf(row) ==
    LET tx_power_dbm  == CsvFloat(_get_value(row, KEYS_tx_power_dbm, <<"0">>))
        rx_power_dbm  == CsvFloat(_get_value(row, KEYS_rx_power_dbm, <<"0">>))
        loss_db       == CsvFloat(_get_value(row, KEYS_loss_db, <<"0">>))
        length_km     == CsvFloat(_get_value(row, KEYS_length_km, <<"0">>))
        wavelength_nm == CsvInt(_get_value(row, KEYS_wavelength_nm,
                                           <<"1","5","5","0">>))
    IN  IF None \in {tx_power_dbm, rx_power_dbm, loss_db, length_km, wavelength_nm}
        THEN None
        ELSE Some([cable_id         |-> _get_value(row, KEYS_cable_id, <<>>),
                   segment_name     |-> _get_value(row, KEYS_segment_name, <<>>),
                   measurement_date |-> _get_value(row, KEYS_measurement_date, <<>>),
                   tx_power_dbm     |-> tx_power_dbm[1],
                   rx_power_dbm     |-> rx_power_dbm[1],
                   loss_db          |-> loss_db[1],
                   length_km        |-> length_km[1],
                   wavelength_nm    |-> wavelength_nm[1],
                   status           |-> _get_value(row, KEYS_status, STR_Unknown),
                   remarks          |-> _get_value(row, KEYS_remarks, <<>>),
                   measured_by      |-> _get_value(row, KEYS_measured_by, <<>>)])

\* parse_opm_csv with a break in place of the continue of line 92
RECURSIVE parse_opm_csv_StopAtBadRow(_)
parse_opm_csv_StopAtBadRow(rows) ==
    IF rows = <<>> THEN <<>>
    ELSE IF OPMMeasurementOf(Head(rows)) = None THEN <<>>
    ELSE OPMMeasurementOf(Head(rows)) \o parse_opm_csv_StopAtBadRow(Tail(rows))

\* the loop of lines 73-92 over the rows of the reader: the measurements
\* list that line 95 returns
RECURSIVE parse_opm_csv(_)
parse_opm_csv(rows) ==
    IF rows = <<>> THEN <<>>
    ELSE OPMMeasurementOf(Head(rows)) \o parse_opm_csv(Tail(rows))

\* the columns of the files of the model
Header ==
    {"Cable ID", "Segment", "Tx Power (dBm)", "Rx Power", "Loss (dB)", "Loss",
     "Length (km)", "Wavelength (nm)", "Status"}

\* a row of the header: the texts given, '' for the other columns
RowOf(given) ==
    [key \in Header |-> IF key \in DOMAIN given THEN given[key] ELSE Some(<<>>)]

ROW_Good ==
    RowOf([c \in {"Cable ID", "Segment", "Tx Power (dBm)", "Rx Power",
                  "Loss (dB)", "Length (km)", "Wavelength (nm)", "Status"} |->
           CASE c = "Cable ID"        -> Some(<<"C","1">>)
             [] c = "Segment"         -> Some(<<"A","-","B">>)
             [] c = "Tx Power (dBm)"  -> Some(<<"3",".","0">>)
             [] c = "Rx Power"        -> Some(<<"-","1","8",".","2","5">>)
             [] c = "Loss (dB)"       -> Some(<<" ","2","1",".","2","5"," ">>)
             [] c = "Length (km)"     -> Some(<<"1","0">>)
             [] c = "Wavelength (nm)" -> Some(<<"1","3","1","0">>)
             [] c = "Status"          -> Some(<<"P","a","s","s">>)])

\* a loss that is not a number
ROW_BadLoss ==
    RowOf([c \in {"Cable ID", "Loss (dB)", "Length (km)"} |->
           CASE c = "Cable ID"    -> Some(<<"C","2">>)
             [] c = "Loss (dB)"   -> Some(<<"n","/","a">>)
             [] c = "Length (km)" -> Some(<<"5">>)])

\* no numeric value at all: every numeric field takes its default
ROW_Defaults ==
    RowOf([c \in {"Cable ID"} |-> Some(<<"C","3">>)])

\* the loss under the second column name, the first one empty
ROW_SecondKey ==
    RowOf([c \in {"Cable ID", "Loss", "Status"} |->
           CASE c = "Cable ID" -> Some(<<"C","4">>)
             [] c = "Loss"     -> Some(<<"0",".","5">>)
             [] c = "Status"   -> Some(<<"F","a","i","l">>)])

\* a wavelength with a decimal point, which int() refuses
ROW_BadWavelength ==
    RowOf([c \in {"Cable ID", "Wavelength (nm)"} |->
           CASE c = "Cable ID"        -> Some(<<"C","5">>)
             [] c = "Wavelength (nm)" -> Some(<<"1","5","5","0",".","0">>)])

\* a line with fewer fields than the header: DictReader fills in None
ROW_Short ==
    [key \in Header |->
        CASE key = "Cable ID" -> Some(<<"C","6">>)
          [] key = "Segment"  -> Some(<<>>)
          [] OTHER            -> None]

\* a length of blanks only, which is not '' and strips to ''
ROW_BlankLength ==
    RowOf([c \in {"Cable ID", "Length (km)"} |->
           CASE c = "Cable ID"    -> Some(<<"C","7">>)
             [] c = "Length (km)" -> Some(<<" "," ">>)])

Rows ==
    {ROW_Good, ROW_BadLoss, ROW_Defaults, ROW_SecondKey, ROW_BadWavelength,
     ROW_Short, ROW_BlankLength}

MaxRows == 3

\* the files: a file that cannot be opened, and the files of the header
\* with up to MaxRows rows
CsvFiles ==
    {[readable |-> FALSE, rows |-> <<>>]} \cup
    {[readable |-> TRUE, rows |-> rows] :
        rows \in UNION {[1..n -> Rows] : n \in 0..MaxRows}}

\* parser.parse_opm_csv(file_path): the list returned, None where open()
\* raises and lines 97-99 raise again
ParseOpmCsv ==
    /\ csv_file # NoFile
    /\ csv_call = None
    /\ csv_call' = Some(IF csv_file.readable
                        THEN Some(parse_opm_csv(csv_file.rows))
                        ELSE None)
    /\ UNCHANGED <<planned_data, built_data, opm_measurements, comparison, pc,
                   parser, calls, link, opm_call, csv_file>>

InitCsv ==
    /\ planned_data = <<>>
    /\ built_data = <<>>
    /\ opm_measurements = <<>>
    /\ comparison = None
    /\ pc = "ready"
    /\ parser = NewParser
    /\ calls = <<>>
    /\ link = NoLink
    /\ opm_call = None
    /\ csv_file \in CsvFiles
    /\ csv_call = None

NextCsv == ParseOpmCsv

SpecCsv == InitCsv /\ [][NextCsv]_vars

----------------------------------------------------------------------------
(* Claims about CSVMeasurementParser *)

\* the numeric fields of a row all coerce: each of the four float fields
\* and the wavelength, with '0' and '1550' for a field that is empty
Coerces(row) ==
    /\ \A keys \in {KEYS_tx_power_dbm, KEYS_rx_power_dbm, KEYS_loss_db,
                    KEYS_length_km} :
           CsvFloat(_get_value(row, keys, <<"0">>)) # None
    /\ CsvInt(_get_value(row, KEYS_wavelength_nm, <<"1","5","5","0">>)) # None

\* the rows that coerce, in the order of the file
RECURSIVE CoercingRows(_)
CoercingRows(rows) ==
    IF rows = <<>> THEN <<>>
    ELSE (IF Coerces(Head(rows)) THEN <<Head(rows)>> ELSE <<>>)
         \o CoercingRows(Tail(rows))

\* C21: parse_opm_csv returns one OPMMeasurement for every input row whose
\* numeric fields all coerce, in input row order; a row with a non-numeric
\* value in a numeric field is skipped and does not prevent any earlier or
\* later row from being returned.
C21_OnePerCoercingRow ==
    (csv_call # None /\ csv_file.readable) =>
        LET returned == csv_call[1][1]
            coercing == CoercingRows(csv_file.rows)
        IN  /\ csv_call[1] # None
            /\ Len(returned) = Len(coercing)
            /\ \A k \in DOMAIN coercing :
                   /\ returned[k].cable_id = coercing[k]["Cable ID"][1]
                   /\ returned[k].loss_db =
                          CsvFloat(_get_value(coercing[k], KEYS_loss_db, <<"0">>))[1]

\* a file of a good row, a row with a loss that is no number and a good
\* row again: the first and the third row are returned
C21_Witness ==
    /\ csv_file # NoFile
    /\ csv_file.rows = <<ROW_Good, ROW_BadLoss, ROW_SecondKey>>
    /\ ~Coerces(ROW_BadLoss)
    /\ csv_call # None
    /\ csv_call[1] # None
    /\ Len(csv_call[1][1]) = 2
    /\ csv_call[1][1][1].loss_db * 100 = 2125 * FloatScale
    /\ csv_call[1][1][2].loss_db * 10 = 5 * FloatScale

----------------------------------------------------------------------------
(* OPMCalculator.analyze_multiple_segments *)

\* analyze_multiple_segments giving every segment the result of the first
analyze_multiple_segments_FirstForAll(optical_params, loss_params, segments) ==
    [i \in DOMAIN segments |->
        calculate_power_budget(optical_params, loss_params, segments[1])]

\* results.append(self.calculate_power_budget(...)) for segment in segments
RECURSIVE analyze_multiple_segments(_, _, _)
analyze_multiple_segments(optical_params, loss_params, segments) ==
    IF segments = <<>> THEN <<>>
    ELSE <<calculate_power_budget(optical_params, loss_params, Head(segments))>>
         \o analyze_multiple_segments(optical_params, loss_params, Tail(segments))

\* the defaults of the request models: tx 3.0, rx -28.0 and the losses
\* 0.35 dB/km, 0.1 dB per splice, 0.5 dB per connector, 3.0 dB of margin
DefaultOptical == OpticalParameters(Whole(3), Whole(-28))

DefaultLoss == LossParameters(Rat(35, 100), Rat(1, 10), Rat(1, 2), Whole(3))

BatchOpticals == {DefaultOptical, OpticalParameters(Whole(-10), Whole(-10))}

BatchLosses ==
    {DefaultLoss, LossParameters(Rat(1, 4), Rat(1, 8), Rat(3, 256), Whole(0))}

\* 10 km with 5 splices and 2 connectors, 40 km with 1 splice, and an
\* empty segment
BatchSegments ==
    {NetworkSegment(Whole(10), 5, 2), NetworkSegment(Whole(40), 1, 0),
     NetworkSegment(Whole(0), 0, 0)}

MaxSegments == 2

MaxBatchCalls == 2

BatchLinks ==
    {[optical_params |-> optical_params,
      loss_params    |-> loss_params,
      segment        |-> segment] :
        optical_params \in BatchOpticals, loss_params \in BatchLosses,
        segment \in BatchSegments}

\* the segment lists of a request
SegmentLists == UNION {[1..n -> BatchSegments] : n \in 0..MaxSegments}

\* the number of analyze_multiple_segments calls made so far
BatchCallsMade ==
    IF opm_call = None THEN 0
    ELSE IF opm_call[1].op # "analyze_multiple_segments" THEN MaxBatchCalls
    ELSE opm_call[1].earlier + 1

\* calculator.analyze_multiple_segments(optical, loss, segments), on a
\* calculator that may have made such calls before
AnalyzeMultipleSegments ==
    /\ link # NoLink
    /\ BatchCallsMade < MaxBatchCalls
    /\ \E segments \in SegmentLists :
           opm_call' = Some([op       |-> "analyze_multiple_segments",
                             segments |-> segments,
                             earlier  |-> BatchCallsMade,
                             result   |-> Some(analyze_multiple_segments(
                                              link.optical_params,
                                              link.loss_params, segments))])
    /\ UNCHANGED <<planned_data, built_data, opm_measurements, comparison, pc,
                   parser, calls, link, csv_file, csv_call>>

InitBatch ==
    /\ planned_data = <<>>
    /\ built_data = <<>>
    /\ opm_measurements = <<>>
    /\ comparison = None
    /\ pc = "ready"
    /\ parser = NewParser
    /\ calls = <<>>
    /\ link \in BatchLinks
    /\ opm_call = None
    /\ csv_file = NoFile
    /\ csv_call = None

NextBatch ==
    \/ CalculatePowerBudget
    \/ AnalyzeMultipleSegments

SpecBatch == InitBatch /\ [][NextBatch]_vars

\* C22: analyze_multiple_segments returns a list of the same length as the
\* input segment list whose i-th element equals the result of
\* calculate_power_budget on the i-th segment alone; no result depends on
\* any other segment or on earlier calls.
C22_BatchIsPerSegment ==
    Called("analyze_multiple_segments") =>
        LET segments == opm_call[1].segments
            results  == opm_call[1].result[1]
        IN  /\ Len(results) = Len(segments)
            /\ \A i \in DOMAIN segments :
                   results[i] = calculate_power_budget(link.optical_params,
                                                       link.loss_params,
                                                       segments[i])

\* a second call, on two different segments, whose two results differ
C22_Witness ==
    /\ Called("analyze_multiple_segments")
    /\ opm_call[1].earlier = 1
    /\ Len(opm_call[1].segments) = 2
    /\ opm_call[1].segments[1] # opm_call[1].segments[2]
    /\ Len(opm_call[1].result[1]) = 2
    /\ opm_call[1].result[1][1].total_loss # opm_call[1].result[1][2].total_loss

\* the link of the worked example: the default parameters and a segment of
\* 10 km with 5 splices and 2 connectors
ExampleLink ==
    [optical_params |-> DefaultOptical,
     loss_params    |-> DefaultLoss,
     segment        |-> NetworkSegment(Whole(10), 5, 2)]

\* C23: for tx_power 3.0, rx_sensitivity -28.0, a segment of 10 km with 5
\* splices and 2 connectors and loss parameters 0.35/0.1/0.5/3.0,
\* calculate_power_budget returns total_loss 5.0, available_margin 23.0,
\* status 'OK' and quality_score 100.
C23_WorkedExample ==
    (Called("calculate_power_budget") /\ link = ExampleLink) =>
        /\ Budget.total_loss = Whole(5)
        /\ Budget.available_margin = Whole(23)
        /\ Budget.status = "OK"
        /\ Budget.quality_score = Whole(100)

\* C23, with the score that the rule gives: the loss efficiency is
\* (1 - 5/31) * 40 = 33.55 and the margin adequacy is 60, so that the
\* score is 93.55 and the clamp at 100 does not act.
C23_WorkedExampleScore ==
    (Called("calculate_power_budget") /\ link = ExampleLink) =>
        /\ Budget.total_loss = Whole(5)
        /\ Budget.available_margin = Whole(23)
        /\ Budget.status = "OK"
        /\ Budget.quality_score = Rat(9355, 100)

\* calculate_power_budget was called on the link of the example and
\* returned a power budget of 31 dB and the losses 3.5, 0.5 and 1.0 dB
C23_Witness ==
    /\ Called("calculate_power_budget")
    /\ link = ExampleLink
    /\ Budget.power_budget = Whole(31)
    /\ Budget.details.loss_breakdown.fiber_loss_db = Rat(7, 2)
    /\ Budget.details.loss_breakdown.splice_loss_db = Rat(1, 2)
    /\ Budget.details.loss_breakdown.connector_loss_db = Whole(1)

----------------------------------------------------------------------------
(* compare_networks on networks of many cables: a number of planned        *)
(* cables built as planned, a number built 6 % longer, a number not built  *)
(* and a number of built cables that were not planned; the built document  *)
(* gives the planned cables the status 'Planned' or the status 'Not Built' *)

CableNames ==
    <<"C1", "C2", "C3", "C4", "C5", "C6", "C7", "C8", "C9", "C10", "C11",
      "C12", "C13", "C14", "C15", "C16", "C17", "C18", "C19", "C20", "C21",
      "C22", "C23", "C24", "C25", "C26", "C27", "C28", "C29", "C30", "C31",
      "C32">>

MaxCompliant == 20

MaxDeviating == 2

\* the planned list: every planned cable is 100 km long
ManyPlanned(compliant, minor, not_built) ==
    [i \in 1..(compliant + minor + not_built) |->
        Cable(CableNames[i], 100, ST_Planned)]

\* the construction status of the cables of the built document that were
\* planned: free text of the document
BuiltStatuses == {ST_Planned, STR_NotBuilt}

\* the built list: the planned cables that were built, in reverse order,
\* then the cables that were not planned
ManyBuilt(compliant, minor, not_built, unplanned, built_status) ==
    [i \in 1..(compliant + minor) |->
        LET j == compliant + minor + 1 - i
        IN  Cable(CableNames[j], IF j <= compliant THEN 100 ELSE 106, built_status)]
    \o
    [i \in 1..unplanned |->
        Cable(CableNames[compliant + minor + not_built + i], 50, ST_InService)]

InitMany ==
    /\ \E compliant \in 0..MaxCompliant, minor \in 0..MaxDeviating,
          not_built \in 0..MaxDeviating, unplanned \in 0..MaxDeviating,
          built_status \in BuiltStatuses :
           /\ planned_data = ManyPlanned(compliant, minor, not_built)
           /\ built_data = ManyBuilt(compliant, minor, not_built, unplanned,
                                     built_status)
    /\ opm_measurements = <<>>
    /\ comparison = None
    /\ pc = "ready"
    /\ parser = NewParser
    /\ calls = <<>>
    /\ link = NoLink
    /\ opm_call = None
    /\ csv_file = NoFile
    /\ csv_call = None

SpecMany == InitMany /\ [][Next]_vars

----------------------------------------------------------------------------
(* Claims about the recommendations *)

MSG_Excellent ==
    <<"Excellent: Network implementation highly compliant with plan">>

MSG_Good == <<"Good: Network implementation mostly compliant">>

MSG_Review == <<"Review: Multiple compliance issues detected">>

\* the overall rating messages among the recommendations, in order
IsRating(message) == message \in {MSG_Excellent, MSG_Good, MSG_Review}

Ratings == SelectSeq(Result.recommendations, IsRating)

\* the compliance rate in hundredths of a percent: the one of the summary,
\* and for no comparison, where the summary has none, the share of
\* compliant results taken as 0
ComplianceRate ==
    IF Result.cable_comparisons = <<>> THEN 0
    ELSE Result.summary.compliance_rate

\* C24: for any set of comparisons, including the empty set, the
\* recommendations contain exactly one overall rating message: the
\* 'Excellent' message iff compliance rate >= 95, the 'Good' message iff
\* 85 <= compliance rate < 95, and the 'Review' message otherwise.
C24_OneRating ==
    comparison # None =>
        /\ Len(Ratings) = 1
        /\ Ratings[1] = MSG_Excellent <=> ComplianceRate >= 9500
        /\ Ratings[1] = MSG_Good <=> (8500 <= ComplianceRate /\ ComplianceRate < 9500)
        /\ Ratings[1] = MSG_Review <=> ComplianceRate < 8500

\* seventeen of twenty cables are compliant: the rate is 85 and the rating
\* is 'Good'
C24_Witness ==
    /\ comparison # None
    /\ Len(Result.cable_comparisons) = 20
    /\ Result.summary.compliance_rate = 8500
    /\ Ratings = <<MSG_Good>>

\* nineteen of twenty cables are compliant: the rate is 95 and the rating
\* is 'Excellent'
C24_WitnessExcellent ==
    /\ comparison # None
    /\ Len(Result.cable_comparisons) = 20
    /\ Result.summary.compliance_rate = 9500
    /\ Ratings = <<MSG_Excellent>>

\* no cable at all: the summary is empty and the rating is 'Review'
C24_WitnessEmpty ==
    /\ comparison # None
    /\ Result.cable_comparisons = <<>>
    /\ Result.summary = EmptyDict
    /\ Ratings = <<MSG_Review>>

\* the cable names of a list
NamesOf(cables) == {cables[i].name : i \in DOMAIN cables}

OnlyPlanned == NamesOf(planned_data) \ NamesOf(built_data)

OnlyBuilt == NamesOf(built_data) \ NamesOf(planned_data)

\* the numbers of the messages of a kind among the recommendations
NumbersOf(text) ==
    LET IsOfKind(message) == Len(message) = 2 /\ message[1] = text
        messages == SelectSeq(Result.recommendations, IsOfKind)
    IN  [i \in DOMAIN messages |-> messages[i][2]]

\* the message of a kind is there once with the count, or absent for 0
MessageCounts(text, count) ==
    NumbersOf(text) = IF count = 0 THEN <<>> ELSE <<count>>

\* C29: the number in the 'planned cables not yet built' message equals
\* the number of cable names present only in the planned snapshot, and the
\* number in the 'unplanned cables built' message equals the number of
\* cable names present only in the built snapshot; each message is absent
\* exactly when its count is 0.
C29_MessageCounts ==
    comparison # None =>
        /\ MessageCounts("planned cables not yet built", Cardinality(OnlyPlanned))
        /\ MessageCounts("unplanned cables built - update design documentation",
                         Cardinality(OnlyBuilt))

\* two planned cables, both in the built document with the construction
\* status 'Not Built': no name is only planned, the message counts 2
C29_BuiltStatusCounted ==
    /\ comparison # None
    /\ Len(planned_data) = 2
    /\ Len(built_data) = 2
    /\ OnlyPlanned = {}
    /\ OnlyBuilt = {}
    /\ \A i \in DOMAIN built_data : built_data[i].construction_status = STR_NotBuilt
    /\ NumbersOf("planned cables not yet built") = <<2>>
    /\ NumbersOf("unplanned cables built - update design documentation") = <<>>

----------------------------------------------------------------------------
(* Claims about the NetworkData that parse_file returns *)

\* C26: a NetworkData returned by parse_file is never changed afterwards:
\* a later parse_file call on the same KMLParser leaves the poles, odps,
\* cables and raw_placemarks of every previously returned NetworkData
\* unchanged.
C26_ReturnedDataUnchanged ==
    \A i \in DOMAIN calls :
        calls[i].network_data # None =>
            NetworkDataNow(i) = calls[i].network_data[1]

\* the first call returned one pole and no cable; after the second call
\* the NetworkData of the first call holds a cable and two raw placemarks
C26_EarlierDataGrew ==
    /\ Len(calls) = 2
    /\ calls[1].document = Document(<<PM_Pole>>)
    /\ calls[2].document = Document(<<PM_CableA>>)
    /\ calls[1].network_data # None
    /\ calls[1].network_data[1].cables = <<>>
    /\ Len(calls[1].network_data[1].raw_placemarks) = 1
    /\ Len(NetworkDataNow(1).cables) = 1
    /\ Len(NetworkDataNow(1).raw_placemarks) = 2

----------------------------------------------------------------------------
(* POST /compare (api/comparison.py): compare_planned_vs_built *)

\* the dict that lines 180-185 and 192-197 make of a Cable.  The length
\* c.fiber_length / 1000 is in whole kilometres for the cables of the
\* model, whose lengths in the documents are whole kilometres.
CableDictOf(c) ==
    [name                |-> c.name,
     fiber_length_km     |-> c.fiber_length \div (1000 * FloatScale),
     construction_status |-> c.construction_status,
     specification       |-> c.specification]

CableDictsOf(cables) == [i \in DOMAIN cables |-> CableDictOf(cables[i])]

\* the OPMMeasurement of the CSV parser as the comparator reads it: the
\* cable_id, and the loss in tenths of a dB
MeasurementOf(m) == Measurement(m.cable_id, (m.loss_db * 10) \div FloatScale)

\* an OPM file with a measurement of 'Kabel A'
ROW_KabelA ==
    RowOf([c \in {"Cable ID", "Loss (dB)"} |->
           CASE c = "Cable ID"  -> Some(<<"K","a","b","e","l"," ","A">>)
             [] c = "Loss (dB)" -> Some(<<"0",".","3">>)])

ProjectPlacemarks == {PM_CableA, PM_CableB, PM_Pole}

\* the Placemark elements of one document of a project
MaxProjectPlacemarks == 2

\* a file of a project: None where the glob of lines 157, 166, 202 finds
\* none
ProjectDocuments ==
    {None, Some(Malformed)} \cup
    {Some(Document(placemarks)) :
        placemarks \in SeqsUpTo(ProjectPlacemarks, MaxProjectPlacemarks)}

ProjectOpmFiles ==
    {None, Some([readable |-> TRUE, rows |-> <<ROW_KabelA, ROW_BadLoss>>]),
     Some([readable |-> TRUE, rows |-> <<>>])}

Projects ==
    [planned : ProjectDocuments, built : ProjectDocuments, opm : ProjectOpmFiles]

\* the request fails: the HTTPException of lines 159 and 168, or the
\* exception that parse_file raises, becomes the HTTP 500 of line 242
RequestFails(project) ==
    \/ project.planned = None
    \/ project.built = None
    \/ ~project.planned[1].well_formed
    \/ ~project.built[1].well_formed

\* the parse_file calls that the request makes before it fails or ends
CallsOf(project, after_planned, after_built) ==
    IF project.planned = None \/ project.built = None THEN <<>>
    ELSE IF ~project.planned[1].well_formed
    THEN <<[document |-> project.planned[1], network_data |-> None]>>
    ELSE <<[document     |-> project.planned[1],
            network_data |-> Some(NetworkDataOf(after_planned))]>>
         \o
         (IF ~project.built[1].well_formed
          THEN <<[document |-> project.built[1], network_data |-> None]>>
          ELSE <<[document     |-> project.built[1],
                  network_data |-> Some(NetworkDataOf(after_built))]>>)

\* one request: both documents are parsed by one KMLParser, the OPM file,
\* if there is one, by a CSVMeasurementParser, and the dicts made of the
\* cables are compared.  Each local of the handler is bound once, in the
\* order in which lines 177-214 assign it.
ComparePlannedVsBuilt(project) ==
    \E after_planned \in {IF project.planned # None /\ project.built # None
                              /\ project.planned[1].well_formed
                           THEN ParsePlacemarks(NewParser, project.planned[1].placemarks)
                           ELSE NewParser} :
    \E after_built \in {IF ~RequestFails(project)
                         THEN ParsePlacemarks(after_planned, project.built[1].placemarks)
                         ELSE after_planned} :
    \E planned_dict \in {CableDictsOf(after_planned.cables)} :
    \E built_dict \in {CableDictsOf(after_built.cables)} :
    \E measurements \in {IF project.opm = None THEN <<>>
                          ELSE parse_opm_csv(project.opm[1].rows)} :
    \E opm \in {[i \in DOMAIN measurements |-> MeasurementOf(measurements[i])]} :
        /\ pc = "ready"
        /\ parser' = after_built
        /\ calls' = CallsOf(project, after_planned, after_built)
        /\ IF RequestFails(project)
           THEN /\ pc' = "error"
                /\ UNCHANGED <<planned_data, built_data, opm_measurements,
                               comparison, csv_file, csv_call>>
           ELSE /\ pc' = "done"
                /\ planned_data' = planned_dict
                /\ built_data' = built_dict
                /\ csv_file' = IF project.opm = None THEN NoFile ELSE project.opm[1]
                /\ csv_call' = IF project.opm = None THEN None
                               ELSE Some(Some(measurements))
                /\ opm_measurements' = opm
                /\ comparison' = Some(compare_networks(planned_dict, built_dict, opm))
        /\ UNCHANGED <<link, opm_call>>

NextProject == \E project \in Projects : ComparePlannedVsBuilt(project)

SpecProject == InitParser /\ [][NextProject]_vars

----------------------------------------------------------------------------
(* Claims about POST /compare *)

\* the cable names of a document: those of the cables that a new parser
\* makes of it
CableNamesOf(document) ==
    LET cables == AloneNetworkData(document).cables
    IN  {cables[i].name : i \in DOMAIN cables}

\* the comparisons reported for a cable
ReportedFor(cable_name) ==
    {i \in DOMAIN Result.cable_comparisons :
        Result.cable_comparisons[i].cable_id = cable_name}

\* C25: when the /compare endpoint processes a project whose planned
\* document contains a cable name that is absent from the built document,
\* the comparison reported for that cable has built_status 'Not Built'
\* and compliance_status 'Major Deviation'.
C25_AbsentCableNotBuilt ==
    pc = "done" =>
        \A cable_name \in CableNamesOf(calls[1].document) \
                          CableNamesOf(calls[2].document) :
            /\ ReportedFor(cable_name) # {}
            /\ \A i \in ReportedFor(cable_name) :
                   /\ Result.cable_comparisons[i].built_status = STR_NotBuilt
                   /\ Result.cable_comparisons[i].compliance_status =
                          "Major Deviation"

\* the planned document has 'Kabel A', the built document has only a
\* pole: 'Kabel A' is reported 'Compliant' with the built status 'Planned'
\* and the built length of the plan
C25_AbsentCableReportedBuilt ==
    /\ pc = "done"
    /\ calls[1].document = Document(<<PM_CableA>>)
    /\ calls[2].document = Document(<<PM_Pole>>)
    /\ CableNamesOf(calls[2].document) = {}
    /\ Len(Result.cable_comparisons) = 1
    /\ Result.cable_comparisons[1].cable_id = <<"K","a","b","e","l"," ","A">>
    /\ Result.cable_comparisons[1].built_status = ST_Planned
    /\ Result.cable_comparisons[1].built_length_km = 100
    /\ Result.cable_comparisons[1].compliance_status = "Compliant"

----------------------------------------------------------------------------
(* Claims about the keywords of _is_pole and the labels of _extract_field *)

\* the text contains the entry in some letter case
ContainsAnyCase(text, entry) == Contains(Lower(text), Lower(entry))

\* the name or the description of the placemark contains an entry of the
\* pole indicator list in some letter case
HasPoleIndicator(placemark) ==
    \E k \in DOMAIN pole_indicators :
        \/ ContainsAnyCase(NameOf(placemark)[1], pole_indicators[k])
        \/ ContainsAnyCase(DescriptionOf(placemark)[1], pole_indicators[k])

\* the raw records of a name
RawNamed(name) ==
    {j \in DOMAIN parser.raw_placemarks : parser.raw_placemarks[j].name = name}

\* the poles of a name
PolesNamed(name) == {j \in DOMAIN parser.poles : parser.poles[j].name = name}

\* C27: classification is case-insensitive for every keyword of the
\* curated sets: for each entry of the pole indicator list ('tiang',
\* 'pole', 'PU-', 'designator:pu'), a placemark whose name or description
\* contains that entry in any letter case is classified as a pole.
C27_PoleIndicatorsAnyCase ==
    \A i \in DOMAIN Given :
        (~PlacemarkRaises(Given[i]) /\ HasPoleIndicator(Given[i])) =>
            LET name == NameOf(Given[i])[1]
            IN  /\ RawNamed(name) # {}
                /\ \A j \in RawNamed(name) : parser.raw_placemarks[j].type = "pole"
                /\ Given[i].point # None => PolesNamed(name) # {}

\* the placemark named 'PU-7', with a Point, was parsed: its raw record
\* has the type 'unknown' and there is no pole
C27_PUNeverMatches ==
    /\ Given = <<PM_PU>>
    /\ HasPoleIndicator(PM_PU)
    /\ Len(parser.raw_placemarks) = 1
    /\ parser.raw_placemarks[1].type = "unknown"
    /\ parser.poles = <<>>

\* the lines of a text
RECURSIVE LinesOf(_)
LinesOf(text) ==
    LET breaks == {i \in DOMAIN text : text[i] = "\n"}
    IN  IF breaks = {} THEN <<text>>
        ELSE LET first == CHOOSE i \in breaks : \A j \in breaks : i <= j
             IN  <<SubSeq(text, 1, first - 1)>> \o LinesOf(From(text, first + 1))

\* the line of the first label of a field: Some(line), None without label
LabelLine(description, field_name) ==
    LET lines == LinesOf(description)
        label == field_name \o <<":">>
        hits  == {i \in DOMAIN lines : ContainsAnyCase(lines[i], label)}
    IN  IF hits = {} THEN None
        ELSE Some(lines[CHOOSE i \in hits : \A j \in hits : i <= j])

\* the line is the label and nothing else
OnlyLabel(line, field_name) == Lower(Strip(line)) = Lower(field_name \o <<":">>)

\* the placemark of a pole: the one given that bears its name
PlacemarkOf(pole) == CHOOSE pm \in Range(Given) : NameOf(pm) = Some(pole.name)

\* C28: the labeled-field extractor returns, for a field name, the text
\* following the first 'Field Name:' label up to the end of that same
\* line, trimmed; the returned value never contains text taken from a
\* different line than the label, and a label followed by nothing on its
\* line yields the field's default.
C28_ValueOfTheLabelLine ==
    \A j \in DOMAIN parser.poles :
        LET description == DescriptionOf(PlacemarkOf(parser.poles[j]))[1]
            line        == LabelLine(description, FIELD_ConstructionStatus)
            status      == parser.poles[j].construction_status
        IN  /\ line = None => status = STR_Unknown
            /\ line # None =>
                   IF OnlyLabel(line[1], FIELD_ConstructionStatus)
                   THEN status = STR_Unknown
                   ELSE EndsWith(Strip(line[1]), status)

\* the pole 'Tiang 2', whose description is 'Construction Status:' and
\* then the line 'Usage: Power', has the construction status 'Usage: Power'
C28_NextLineTaken ==
    /\ Given = <<PM_EmptyField>>
    /\ Len(parser.poles) = 1
    /\ LabelLine(DescriptionOf(PM_EmptyField)[1], FIELD_ConstructionStatus)
           = Some(<<"C","o","n","s","t","r","u","c","t","i","o","n"," ","S","t",
                    "a","t","u","s",":">>)
    /\ parser.poles[1].construction_status
           = <<"U","s","a","g","e",":"," ","P","o","w","e","r">>
    /\ parser.poles[1].usage = <<"P","o","w","e","r">>

----------------------------------------------------------------------------
\* C30: a matched cable whose planned length is 0 is compared without a
\* division: its length_variance_pct is 0 whatever its built length, its
\* length_variance_km is the whole built length, and with no measurement
\* it is 'Compliant' with no length remark, however long the built cable.
C30_ZeroPlannedLength ==
    pc = "done" =>
        \A i \in DOMAIN Result.cable_comparisons :
            LET r == Result.cable_comparisons[i]
            IN  (IsMatched(r) /\ LengthOf(LastNamed(planned_data, r.cable_id)) = 0) =>
                    /\ r.planned_length_km = 0
                    /\ r.built_length_km = LengthOf(LastNamed(built_data, r.cable_id))
                    /\ r.length_variance_km = r.built_length_km
                    /\ r.length_variance_pct = 0
                    /\ r.measured_loss_db = None =>
                           /\ r.compliance_status = "Compliant"
                           /\ \A k \in DOMAIN r.remarks : r.remarks[k][1] = "Status mismatch"

\* planned length 0, the longest built cable of the model, no measurement:
\* 'Compliant' with a variance of 0 percent
C30_Witness ==
    /\ pc = "done"
    /\ \E i \in DOMAIN Result.cable_comparisons :
           LET r == Result.cable_comparisons[i]
           IN  /\ IsMatched(r)
               /\ "fiber_length_km" \in DOMAIN LastNamed(planned_data, r.cable_id)
               /\ r.planned_length_km = 0
               /\ r.built_length_km = MaxBuiltLength
               /\ r.measured_loss_db = None
               /\ r.length_variance_pct = 0
               /\ r.compliance_status = "Compliant"

============================================================================
